---- MODULE Spec2Model ----
(***************************************************************************)
(* A model of the order-notification bot: the Order Store (database.py),   *)
(* the chat front-end and the Sync Task Engine (bot.py), and the backend   *)
(* client's status extraction (order_api.py).                              *)
(*                                                                         *)
(* Strings are modelled as sequences of tokens: a token is either one      *)
(* character ("a", "/", " ") or a fixed multi-character piece of a URL     *)
(* ("https://", "v.douyin.com") that no operation of the code splits.      *)
(*                                                                         *)
(* The clock counts in units of 180 seconds, the default of                *)
(* SYNC_TASK_INTERVAL, which is therefore 1 unit.                          *)
(***************************************************************************)
EXTENDS Integers, Sequences, FiniteSets, TLC

(***************************************************************************)
(* Bounds of the model.                                                    *)
(***************************************************************************)
MaxTime == 3          \* the clock runs from StartTime to MaxTime
MaxMsgs == 2          \* chat messages received
MaxToggles == 1       \* button presses received
MaxDue == 4           \* the clock of the due-task queries runs to MaxDue
MaxCreateAt == 2      \* creation times of the orders looked up by link
MaxUrlLen == 4        \* tokens of a text given to normalize_url
MaxRetries == 3       \* max_retries of get_orders_page and of sync_order
MaxEntries == 2       \* entries of the logs given to extract_refund_status
PageSize == 2         \* page_size of the listing (Config.PAGE_SIZE)
PageCap == 2          \* last page a listing goes on to after failed pages (100)
MaxPage == 3          \* pages one listing of the model requests
MaxCycles == 3        \* check_new_orders cycles of one run of the bulk sync thread
MaxDay == 3           \* days the orders given to delete_expired_orders are spread over
MaxAttempts == 2      \* attempts a task counts in the run over unbounded time
MaxClock == 8         \* the clock of the repeating timer runs to MaxClock

(***************************************************************************)
(* Program constants.                                                      *)
(***************************************************************************)
sync_interval == 1    \* Config.SYNC_TASK_INTERVAL, in clock units
StartTime == 1        \* the epoch time at start-up is positive
DayUnits == 480       \* clock units in one calendar day

None == "None"        \* Python's None / SQL NULL, where the values are words
Null == <<>>          \* the same, where the values are records or strings;
                      \* no nullable string of the model is ever empty

(***************************************************************************)
(* Token strings.                                                          *)
(***************************************************************************)
HTTPS == "https://"
HTTP == "http://"
DOMAIN_TOK == "v.douyin.com"
SLASH == "/"
SPACE == " "

SingleChars == {"a", "b", "A", "_", SLASH, SPACE}

Lower(c) == IF c = "A" THEN "a" ELSE c

RECURSIVE LStrip(_)
LStrip(s) == IF s # <<>> /\ Head(s) = SPACE THEN LStrip(Tail(s)) ELSE s

\* a scheme whose two slashes have been stripped
HTTPS_BARE == "https:"
HTTP_BARE == "http:"

\* s.rstrip(tok); stripping "/" from a text that ends with a scheme takes the
\* two slashes of the scheme
RECURSIVE RStripTok(_, _)
RStripTok(s, tok) ==
    IF s = <<>> THEN s
    ELSE IF s[Len(s)] = tok THEN RStripTok(SubSeq(s, 1, Len(s) - 1), tok)
    ELSE IF tok = SLASH /\ s[Len(s)] \in {HTTPS, HTTP}
         THEN Append(SubSeq(s, 1, Len(s) - 1),
                     IF s[Len(s)] = HTTPS THEN HTTPS_BARE ELSE HTTP_BARE)
    ELSE s

\* str.strip()
Strip(s) == RStripTok(LStrip(s), SPACE)

\* tok in s
HasTok(s, tok) == \E i \in 1..Len(s) : s[i] = tok

\* s.replace(tok, '')
RECURSIVE RemoveTok(_, _)
RemoveTok(s, tok) ==
    IF s = <<>> THEN <<>>
    ELSE IF Head(s) = tok THEN RemoveTok(Tail(s), tok)
    ELSE <<Head(s)>> \o RemoveTok(Tail(s), tok)

\* s.startswith('http')
StartsWithHttp(s) == s # <<>> /\ Head(s) \in {HTTPS, HTTP, HTTPS_BARE, HTTP_BARE}

\* normalize_url that keeps the trailing slashes it is given
normalize_url_keep_slashes(url) ==
    IF url = <<>> THEN <<>>
    ELSE LET stripped == Strip(url)
         IN IF HasTok(stripped, DOMAIN_TOK)
            THEN (IF stripped # <<>> /\ stripped[Len(stripped)] = SLASH
                  THEN stripped ELSE Append(stripped, SLASH))
            ELSE stripped

\* Database.normalize_url
normalize_url(url) ==
    IF url = <<>> THEN <<>>
    ELSE LET stripped == RStripTok(Strip(url), SLASH)
         IN IF HasTok(stripped, DOMAIN_TOK)
            THEN (IF stripped # <<>> /\ stripped[Len(stripped)] = SLASH
                  THEN stripped ELSE Append(stripped, SLASH))
            ELSE stripped

\* One pattern character of a SQL LIKE against one character of the value:
\* "_" matches any single character, letters match without regard to case.
LikeTok(p, c) == \/ Lower(p) = Lower(c)
                 \/ p = "_" /\ c \in SingleChars

\* value LIKE '%pat%'
Like(value, pat) ==
    \E i \in 0..(Len(value) - Len(pat)) :
        \A j \in 1..Len(pat) : LikeTok(pat[j], value[i + j])

(***************************************************************************)
(* Log text.  A log blob is [kind, entries]: kind "list" is a string that  *)
(* json.loads turns into a list of entries, kind "text" is a string that   *)
(* is not JSON (entries then holds the one raw text).  The content of an   *)
(* entry is a sequence of words; the words stand for                       *)
(*   tuidanzhong  = refund of the order in progress  (tui dan zhong)       *)
(*   yituikuan    = money refunded                   (yi tui kuan)         *)
(*   yituidan     = order refunded                   (yi tui dan)          *)
(*   tuikuanzhong = money refund in progress         (tui kuan zhong)      *)
(*   xiadan       = order placed, no refund word                           *)
(***************************************************************************)
TUIDANZHONG == "tuidanzhong"
YITUIKUAN == "yituikuan"
YITUIDAN == "yituidan"
TUIKUANZHONG == "tuikuanzhong"
TUIDAN == "tuidan"
XIADAN == "xiadan"

\* keyword in word, as substrings of the original text: "tui dan" is part of
\* "tui dan zhong" and of "yi tui dan"; no other keyword is part of another word.
WordHas(word, keyword) ==
    \/ word = keyword
    \/ keyword = TUIDAN /\ word \in {TUIDANZHONG, YITUIDAN}

\* keyword in text
TextHas(text, keyword) == \E i \in 1..Len(text) : WordHas(text[i], keyword)

\* keyword in logs, for the raw string of a blob
RawHas(blob, keyword) ==
    \E i \in 1..Len(blob.entries) : TextHas(blob.entries[i], keyword)

\* the first keyword of the list kws that is in the set hits, or None
FirstKeyword(kws, hits) ==
    IF \A i \in 1..Len(kws) : kws[i] \notin hits THEN None
    ELSE kws[CHOOSE i \in 1..Len(kws) :
                /\ kws[i] \in hits
                /\ \A j \in 1..(i - 1) : kws[j] \notin hits]

\* the keywords of the list kws that occur in text
KeywordsIn(kws, text) == {kws[i] : i \in {j \in 1..Len(kws) : TextHas(text, kws[j])}}

\* TelegramBot.target_refund_statuses / the keywords of extract_refund_status
keywords == <<TUIDANZHONG, YITUIKUAN, YITUIDAN>>

\* the keywords of Database.is_refund_status
refund_keywords == <<TUIDANZHONG, YITUIKUAN, YITUIDAN, TUIKUANZHONG, TUIDAN>>

KeywordsOf == {keywords[i] : i \in 1..Len(keywords)}

\* is_refund_status without the scan of the logs
is_refund_status_by_code(order) == order.order_status < 0

\* Database.is_refund_status, on a row of the orders table
is_refund_status(order) ==
    \/ \E i \in 1..Len(refund_keywords) : RawHas(order.logs, refund_keywords[i])
    \/ order.order_status < 0

\* the scan of the log entries, most recent entry first
RECURSIVE ScanEntries(_, _)
ScanEntries(entries, i) ==
    IF i = 0 THEN None
    ELSE LET hit == FirstKeyword(keywords, KeywordsIn(keywords, entries[i]))
         IN IF hit # None THEN hit ELSE ScanEntries(entries, i - 1)

\* an extraction that reads the logs only and not the status text
extract_refund_status_logs_only(order_detail) ==
    IF order_detail = Null THEN None
    ELSE LET logs == order_detail.Logs
             log_entries == IF logs.kind \in {"list", "object"} THEN logs.entries
                            ELSE <<>>
         IN IF logs.kind = "text"
            THEN FirstKeyword(keywords, {k \in KeywordsOf : RawHas(logs, k)})
            ELSE ScanEntries(log_entries, Len(log_entries))

\* OrderAPI.extract_refund_status, on an order record of the backend (or None)
extract_refund_status(order_detail) ==
    IF order_detail = Null THEN None
    ELSE LET logs == order_detail.Logs
             fromText == IF logs.kind = "text"
                         THEN FirstKeyword(keywords, {k \in KeywordsOf : RawHas(logs, k)})
                         ELSE None
             log_entries == IF logs.kind \in {"list", "object"} THEN logs.entries
                            ELSE <<>>
             fromEntries == ScanEntries(log_entries, Len(log_entries))
             text == order_detail.OrderStatusText
             fromStatus == IF text = Null THEN None
                           ELSE FirstKeyword(keywords, KeywordsIn(keywords, text))
         IN IF fromText # None THEN fromText
            ELSE IF fromEntries # None THEN fromEntries
            ELSE fromStatus

(***************************************************************************)
(* The Order Store.  The orders table is a sequence of rows in table       *)
(* (rowid) order; the sync-task and settings tables are sets of rows.      *)
(* Columns no modelled operation reads are left out (user_name, goods_*,   *)
(* order_sn, price, params; douyin_url, shequ_id and order_sn of a task).  *)
(***************************************************************************)

\* Database.extract_douyin_url: params is the list of the "value" strings
RECURSIVE extract_douyin_url(_)
extract_douyin_url(params) ==
    IF params = <<>> THEN Null
    ELSE LET value == Head(params)
             url == Strip(value)
         IN IF HasTok(value, DOMAIN_TOK) /\ StartsWithHttp(url)
            THEN normalize_url(url)
            ELSE extract_douyin_url(Tail(params))

\* strftime('%Y-%m-%d') of a timestamp: the number of its calendar day
DayOf(t) == t \div DayUnits

\* the row insert_order builds from an order record of the backend (every
\* CreateAt of the model is positive, so created_date is its day)
OrderRow(order) ==
    [order_id |-> order.Id,
     create_at |-> order.CreateAt,
     douyin_url |-> extract_douyin_url(order.Params),
     logs |-> order.Logs,
     order_status |-> order.OrderStatus,
     created_date |-> DayOf(order.CreateAt),
     shequ_id |-> order.ShequId]

\* a plain INSERT INTO orders, on a table without the key on order_id
InsertAppend(ords, row) == Append(ords, row)

\* INSERT OR REPLACE INTO orders: the row of the same order_id is deleted and
\* the new row gets a fresh rowid, the greatest of the table
InsertOrReplace(ords, row) ==
    Append(SelectSeq(ords, LAMBDA r : r.order_id # row.order_id), row)

\* Database.insert_order
insert_order(ords, order) == InsertOrReplace(ords, OrderRow(order))

\* Database.order_exists
order_exists(ords, order_id) == \E i \in 1..Len(ords) : ords[i].order_id = order_id

\* Database.insert_orders_batch
RECURSIVE insert_orders_batch(_, _)
insert_orders_batch(ords, list) ==
    IF list = <<>> THEN ords
    ELSE IF order_exists(ords, Head(list).Id)
         THEN insert_orders_batch(ords, Tail(list))
         ELSE insert_orders_batch(insert_order(ords, Head(list)), Tail(list))

\* the WHERE clause of find_order_by_douyin_url
UrlMatches(douyin_url, clean_url) ==
    LET url_core == RStripTok(RemoveTok(RemoveTok(clean_url, HTTPS), HTTP), SLASH)
    IN /\ douyin_url # Null
       /\ \/ douyin_url = clean_url
          \/ douyin_url = RStripTok(clean_url, SLASH)
          \/ Like(douyin_url, url_core)
          \/ Like(douyin_url, Append(url_core, SLASH))

\* ORDER BY create_at DESC LIMIT 1 over the rows at the indexes idx: SQL leaves
\* the order of rows with equal create_at open; SQLite yields them in table
\* order, so the first row of the greatest create_at is returned.
FirstByCreateAtDesc(ords, idx) ==
    LET best == {i \in idx : \A j \in idx : ords[j].create_at <= ords[i].create_at}
    IN ords[CHOOSE i \in best : \A j \in best : i <= j]

\* Database.find_order_by_douyin_url
find_order_by_douyin_url(ords, url) ==
    LET clean_url == normalize_url(url)
    IN IF clean_url = <<>> \/ ~StartsWithHttp(clean_url) THEN Null
       ELSE LET idx == {i \in 1..Len(ords) : UrlMatches(ords[i].douyin_url, clean_url)}
            IN IF idx = {} THEN Null ELSE FirstByCreateAtDesc(ords, idx)

\* Database.delete_orders_by_shequ_ids
delete_orders_by_shequ_ids(ords, exclude_shequ_ids) ==
    IF exclude_shequ_ids = {} THEN ords
    ELSE SelectSeq(ords, LAMBDA r : r.shequ_id \in exclude_shequ_ids)

\* an eviction that also takes the orders of the cutoff day
delete_expired_orders_inclusive(ords, days, t) ==
    LET cutoff_day == DayOf(t) - days
    IN SelectSeq(ords, LAMBDA r : ~(r.created_date <= cutoff_day))

\* Database.delete_expired_orders, called at time t
delete_expired_orders(ords, days, t) ==
    LET cutoff_date == DayOf(t) - days
    IN SelectSeq(ords, LAMBDA r : ~(r.created_date < cutoff_date))

\* Database.get_selected_shequ_ids
get_selected_shequ_ids(st) == {r.shequ_id : r \in {x \in st : x.is_selected = 1}}

\* Database.is_all_shequ_selected
is_all_shequ_selected(st) == Cardinality({x \in st : x.is_selected = 1}) = 0

\* Database.update_shequ_settings: shequ_list is a set of [Id, is_selected]
update_shequ_settings(st, shequ_list) ==
    LET cleared == {[r EXCEPT !.is_selected = 0] : r \in st}
        listed == {s.Id : s \in shequ_list}
    IN {r \in cleared : r.shequ_id \notin listed}
       \cup {[shequ_id |-> s.Id, is_selected |-> s.is_selected] : s \in shequ_list}

\* add_sync_task without the lookup of an existing row
add_sync_task_insert(ts, order_id, chat_id, message_id, initial_attempts, max_attempts, t) ==
    ts \cup {[order_id |-> order_id, chat_id |-> chat_id,
              message_id |-> message_id, attempts |-> initial_attempts,
              max_attempts |-> max_attempts,
              last_synced_at |-> IF initial_attempts > 0 THEN t ELSE 0,
              status_text |-> None]}

\* Database.add_sync_task
add_sync_task(ts, order_id, chat_id, message_id, initial_attempts, max_attempts, t) ==
    LET last_synced_at == IF initial_attempts > 0 THEN t ELSE 0
        exists == \E r \in ts : r.order_id = order_id
    IN IF exists
       THEN {IF r.order_id = order_id
             THEN [r EXCEPT !.chat_id = chat_id, !.message_id = message_id,
                            !.attempts = initial_attempts,
                            !.max_attempts = max_attempts,
                            !.last_synced_at = last_synced_at]
             ELSE r : r \in ts}
       ELSE ts \cup {[order_id |-> order_id, chat_id |-> chat_id,
                      message_id |-> message_id, attempts |-> initial_attempts,
                      max_attempts |-> max_attempts,
                      last_synced_at |-> last_synced_at, status_text |-> None]}

\* Database.get_sync_task
get_sync_task(ts, order_id) ==
    IF \E r \in ts : r.order_id = order_id
    THEN CHOOSE r \in ts : r.order_id = order_id
    ELSE Null

\* get_due_sync_tasks with a strict comparison against the threshold
get_due_sync_tasks_strict(ts, interval_seconds, t) ==
    LET threshold == t - interval_seconds
    IN {r \in ts : \/ r.last_synced_at = 0
                   \/ r.last_synced_at < threshold}

\* Database.get_due_sync_tasks, called at time t.  No statement of the program
\* writes a NULL last_synced_at (add_sync_task and update_sync_task write
\* integers), so the IS NULL test has no row to select.
get_due_sync_tasks(ts, interval_seconds, t) ==
    LET threshold == t - interval_seconds
    IN {r \in ts : \/ r.last_synced_at = 0
                   \/ r.last_synced_at <= threshold}

\* update_sync_task that leaves last_synced_at as it was
update_sync_task_keep_time(ts, order_id, attempts, last_synced_at, status_text) ==
    {IF r.order_id = order_id
     THEN [r EXCEPT !.attempts = attempts, !.status_text = status_text]
     ELSE r : r \in ts}

\* Database.update_sync_task
update_sync_task(ts, order_id, attempts, last_synced_at, status_text) ==
    {IF r.order_id = order_id
     THEN [r EXCEPT !.attempts = attempts, !.last_synced_at = last_synced_at,
                    !.status_text = status_text]
     ELSE r : r \in ts}

\* Database.delete_sync_task
delete_sync_task(ts, order_id) == {r \in ts : r.order_id # order_id}

(***************************************************************************)
(* The backend and the chat, as the program sees them.                     *)
(***************************************************************************)
OrderIds == {1, 2}
Channels == {7, 9}
CHAT == "chat"

U1 == <<HTTPS, DOMAIN_TOK, SLASH, "a">>
U2 == <<HTTPS, DOMAIN_TOK, SLASH, "b", SLASH>>
U3 == <<HTTPS, DOMAIN_TOK, SLASH, "a", "b">>

\* the link matches the regular expression finds in the texts of the messages
MsgTexts == {<<U2>>, <<U1, U2>>}

\* the states of an order at the backend, and how they can follow each other
BackendStates == {"pending", "yituikuan", "statustext"}
BackendAfter(st) == IF st = "pending" THEN {"yituikuan", "statustext"} ELSE {}

\* the order record the backend returns for order o in state st
BackendOrder(o, st) ==
    [Id |-> o,
     CreateAt |-> 1,
     Params |-> IF o = 1 THEN <<U1>> ELSE <<U2>>,
     ShequId |-> IF o = 1 THEN 7 ELSE 9,
     OrderStatus |-> 1,
     Logs |-> [kind |-> "list",
               entries |-> CASE st = "tuikuanzhong" -> <<<<XIADAN>>, <<TUIKUANZHONG>>>>
                             [] st = "yituikuan" -> <<<<XIADAN>>, <<YITUIKUAN>>>>
                             [] OTHER -> <<<<XIADAN>>>>],
     OrderStatusText |-> IF st = "statustext" THEN <<YITUIKUAN>> ELSE Null]

\* the lists of orders a listing of the backend can return (any part of the
\* orders, since pages fail and the window moves)
BackendLists == {<<>>, <<1>>, <<2>>, <<1, 2>>}

\* the channel lists get_shequ_list can return: the channels, or the empty
\* list when the request fails
ShequLists == {Channels, {}}

VARIABLES
    now,        \* int(time.time())
    orders,     \* table orders
    tasks,      \* table order_sync_tasks
    settings,   \* table shequ_settings
    backend,    \* the state of each order at the backend
    upd,        \* the update handler in progress (updates are handled one at a time)
    scan,       \* the process_sync_queue job in progress
    outbox,     \* the calls to the chat that have not returned yet, in order
    notified,   \* per order, the notifications delivered since add_sync_task
    nupd,       \* messages received so far
    ntog,       \* button presses received so far
    nextScan,   \* the time the job queue fires process_sync_queue next
    probe       \* the result of the last query of a store operation run alone

vars == <<now, orders, tasks, settings, backend, upd, scan, outbox, notified,
          nupd, ntog, nextScan, probe>>

\* a coroutine that is not running: it waits for an update or for the timer
Idle == [pc |-> "idle", mid |-> 0, urls |-> <<>>, todo |-> {}, task |-> Null,
         refund |-> None, sel |-> {}, all |-> TRUE]

Init ==
    /\ now = StartTime
    /\ orders = <<>>
    /\ tasks = {}
    /\ settings = {}
    /\ backend = [o \in OrderIds |-> "pending"]
    /\ upd = Idle
    /\ scan = Idle
    /\ outbox = <<>>
    /\ notified = [o \in OrderIds |-> 0]
    /\ nupd = 0
    /\ ntog = 0
    /\ nextScan = StartTime + sync_interval
    /\ probe = Null

\* The event loop runs one coroutine at a time; a coroutine gives the loop up
\* only at an await of a chat call (pc "reply", "notify1", "notify2").
Running(c) == c.pc \in {"loop", "poll"}

\* the coroutine after it has finished one link or one task
Rest(c) ==
    IF Len(c.urls) <= 1 /\ c.todo = {} THEN Idle
    ELSE [c EXCEPT !.pc = "loop",
                   !.urls = IF c.urls = <<>> THEN <<>> ELSE Tail(c.urls),
                   !.task = Null, !.refund = None]

\* TelegramBot.extract_douyin_urls, on the matches of the regular expression
extract_douyin_urls(urls) ==
    SelectSeq([i \in 1..Len(urls) |-> normalize_url(urls[i])], LAMBDA u : u # <<>>)

(***************************************************************************)
(* handle_message                                                          *)
(***************************************************************************)

\* handle_message, up to the loop over the links
HandleMessage(text) ==
    /\ upd.pc = "idle" /\ ~Running(scan)
    /\ nupd < MaxMsgs
    /\ nupd' = nupd + 1
    /\ LET douyin_urls == extract_douyin_urls(text)
       IN upd' = IF douyin_urls = <<>> THEN Idle
                 ELSE [Idle EXCEPT !.pc = "loop", !.mid = nupd + 1,
                                   !.urls = douyin_urls,
                                   !.sel = get_selected_shequ_ids(settings),
                                   !.all = is_all_shequ_selected(settings)]
    /\ UNCHANGED <<now, orders, tasks, settings, backend, scan, outbox, notified,
                   nextScan, probe, ntog>>

\* the calls in flight once the call has returned or raised
Returned(calls, call) ==
    LET i == CHOOSE k \in 1..Len(calls) : calls[k] = call
    IN SubSeq(calls, 1, i - 1) \o SubSeq(calls, i + 1, Len(calls))

\* the reply of handle_message for an order outside the selected channels
SkipReply(mid) ==
    [kind |-> "skip", chat_id |-> CHAT, reply_to |-> mid, text |-> "skipped"]

\* the channel test without the test of the all-channels mode
OutsideSelectedAlways(c, order) == order.shequ_id \notin c.sel

\* the test of handle_message that the order is outside the selected channels
OutsideSelected(c, order) ==
    ~c.all /\ c.sel # {} /\ order.shequ_id \notin c.sel

\* one turn of the loop of handle_message, up to the poll of the new task
MsgLink ==
    /\ upd.pc = "loop"
    /\ LET url == Head(upd.urls)
           order == find_order_by_douyin_url(orders, url)
       IN IF order = Null
          THEN /\ upd' = Rest(upd)
               /\ UNCHANGED <<tasks, outbox, notified>>
          ELSE IF OutsideSelected(upd, order)
          THEN /\ outbox' = Append(outbox, SkipReply(upd.mid))
               /\ upd' = [upd EXCEPT !.pc = "reply"]
               /\ UNCHANGED <<tasks, notified>>
          ELSE IF is_refund_status(order)
          THEN /\ upd' = Rest(upd)
               /\ UNCHANGED <<tasks, outbox, notified>>
          ELSE /\ tasks' = add_sync_task(tasks, order.order_id, CHAT, upd.mid, 0, 0, now)
               /\ notified' = [notified EXCEPT ![order.order_id] = 0]
               /\ LET task == get_sync_task(tasks', order.order_id)
                  IN upd' = IF task = Null THEN Rest(upd)
                            ELSE [upd EXCEPT !.pc = "poll", !.task = task]
               /\ UNCHANGED outbox
    /\ UNCHANGED <<now, orders, settings, backend, scan, nupd, nextScan, probe, ntog>>

\* reply_text returns: the loop goes on
MsgReplyDone ==
    /\ upd.pc = "reply" /\ ~Running(scan)
    /\ upd' = Rest(upd)
    /\ outbox' = Returned(outbox, SkipReply(upd.mid))
    /\ UNCHANGED <<now, orders, tasks, settings, backend, scan, notified,
                   nupd, ntog, nextScan, probe>>

\* reply_text raises: the handler ends with the links left undone
MsgReplyFail ==
    /\ upd.pc = "reply" /\ ~Running(scan)
    /\ upd' = Idle
    /\ outbox' = Returned(outbox, SkipReply(upd.mid))
    /\ UNCHANGED <<now, orders, tasks, settings, backend, scan, notified,
                   nupd, ntog, nextScan, probe>>

(***************************************************************************)
(* _process_single_sync_task                                               *)
(***************************************************************************)

\* the message of sync_order for a refund keyword found in the logs
RefundMessage(keyword) ==
    CASE keyword = TUIDANZHONG -> "dingdan_tuidanzhong"
      [] keyword = YITUIKUAN -> "dingdan_yituikuan"
      [] OTHER -> "dingdan_yituidan"

\* the messages sync_order(order_id, max_retries=1) can return: the refund
\* message if get_order_detail finds a keyword in the logs, else the outcome
\* of the one POST
SyncOrderMessages(order) ==
    LET hits == {k \in KeywordsOf : RawHas(order.Logs, k)}
    IN (IF hits # {} THEN {RefundMessage(FirstKeyword(keywords, hits))} ELSE {})
       \cup {"sync_ok", "sync_failed"}

\* the records get_order_status_by_id can return: the order, or None when the
\* request fails or lists nothing
OrderStatusResults(order_id) == {Null, BackendOrder(order_id, backend[order_id])}

\* the notification of _notify_user: first threaded, then without the thread
Notice(task, refund_status, threaded) ==
    [kind |-> "notify", chat_id |-> task.chat_id,
     reply_to |-> IF threaded THEN task.message_id ELSE 0,
     text |-> refund_status]

\* what a poll that deleted the task as soon as it saw the refund status,
\* before the notification, would write
PollTasksDeleteFirst(order_id, attempts, status_text, refund_status) ==
    IF refund_status # None THEN delete_sync_task(tasks, order_id)
    ELSE update_sync_task(tasks, order_id, attempts, now, status_text)

\* the write of _process_single_sync_task to the task table before the
\* notification
PollTasks(order_id, attempts, status_text, refund_status) ==
    update_sync_task(tasks, order_id, attempts, now, status_text)

\* _process_single_sync_task(task) up to the await of the notification, run by
\* the coroutine c whose state after the task is rest
Poll(c, rest, task, message, order_detail) ==
    LET order_id == task.order_id
        attempts_before == task.attempts
        refund_status == extract_refund_status(order_detail)
        attempts == attempts_before + 1
        status_text == IF refund_status # None THEN refund_status ELSE message
    IN /\ orders' = IF order_detail # Null THEN insert_order(orders, order_detail)
                    ELSE orders
       /\ tasks' = PollTasks(order_id, attempts, status_text, refund_status)
       /\ IF refund_status # None
          THEN /\ outbox' = Append(outbox, Notice(task, refund_status, TRUE))
               /\ c' = [rest EXCEPT !.pc = "notify1", !.task = task,
                                    !.refund = refund_status]
          ELSE /\ c' = Rest(rest)
               /\ UNCHANGED outbox

\* the poll of the task handle_message has just added
MsgPoll ==
    /\ upd.pc = "poll"
    /\ \E message \in SyncOrderMessages(BackendOrder(upd.task.order_id,
                                                     backend[upd.task.order_id])),
          order_detail \in OrderStatusResults(upd.task.order_id) :
          Poll(upd, upd, upd.task, message, order_detail)
    /\ UNCHANGED <<now, settings, backend, scan, notified, nupd, nextScan, probe, ntog>>

\* process_sync_queue, up to the loop over the due tasks
ScanStart ==
    /\ scan.pc = "idle" /\ ~Running(upd)
    /\ now >= nextScan
    /\ nextScan' = nextScan + sync_interval
    /\ LET due == get_due_sync_tasks(tasks, sync_interval, now)
       IN scan' = IF due = {} THEN Idle ELSE [Idle EXCEPT !.pc = "loop", !.todo = due]
    /\ UNCHANGED <<now, orders, tasks, settings, backend, upd, outbox, notified,
                   nupd, probe, ntog>>

\* one turn of the loop of process_sync_queue (the order of the rows of the
\* query is open)
ScanPoll ==
    /\ scan.pc = "loop"
    /\ \E task \in scan.todo :
          \E message \in SyncOrderMessages(BackendOrder(task.order_id,
                                                        backend[task.order_id])),
             order_detail \in OrderStatusResults(task.order_id) :
             Poll(scan, [scan EXCEPT !.todo = scan.todo \ {task}], task, message,
                  order_detail)
    /\ UNCHANGED <<now, settings, backend, upd, notified, nupd, nextScan, probe, ntog>>

\* the other coroutine of the event loop
Other(p) == IF p = "upd" THEN scan ELSE upd
Co(p) == IF p = "upd" THEN upd ELSE scan
SetCo(p, c) == IF p = "upd" THEN upd' = c /\ UNCHANGED scan
               ELSE scan' = c /\ UNCHANGED upd

\* the notification a coroutine waits for
InFlight(c) == Notice(c.task, c.refund, c.pc = "notify1")

\* send_message returns: the task is deleted
NotifyOk(p) ==
    /\ Co(p).pc \in {"notify1", "notify2"} /\ ~Running(Other(p))
    /\ notified' = [notified EXCEPT ![Co(p).task.order_id] = @ + 1]
    /\ tasks' = delete_sync_task(tasks, Co(p).task.order_id)
    /\ outbox' = Returned(outbox, InFlight(Co(p)))
    /\ SetCo(p, Rest(Co(p)))
    /\ UNCHANGED <<now, orders, settings, backend, nupd, nextScan, probe, ntog>>

\* the threaded send_message raises: _notify_user sends without the thread
Notify1Fail(p) ==
    /\ Co(p).pc = "notify1" /\ ~Running(Other(p))
    /\ outbox' = Append(Returned(outbox, InFlight(Co(p))),
                         Notice(Co(p).task, Co(p).refund, FALSE))
    /\ SetCo(p, [Co(p) EXCEPT !.pc = "notify2"])
    /\ UNCHANGED <<now, orders, tasks, settings, backend, notified, nupd, nextScan,
                   probe, ntog>>

\* the second send_message raises too: the exception ends the handler or the job
Notify2Fail(p) ==
    /\ Co(p).pc = "notify2" /\ ~Running(Other(p))
    /\ SetCo(p, Idle)
    /\ outbox' = Returned(outbox, InFlight(Co(p)))
    /\ UNCHANGED <<now, orders, tasks, settings, backend, notified, nupd,
                   nextScan, probe, ntog>>

(***************************************************************************)
(* handle_shequ_callback, the bulk sync thread, the backend and the clock  *)
(***************************************************************************)

\* handle_shequ_callback for the button of one channel, between its two awaits
ToggleShequ(shequ_id, shequ_list) ==
    LET selected_ids == get_selected_shequ_ids(settings)
        toggled == IF shequ_id \in selected_ids THEN selected_ids \ {shequ_id}
                   ELSE selected_ids \cup {shequ_id}
        update_list == {[Id |-> s, is_selected |-> IF s \in toggled THEN 1 ELSE 0] :
                        s \in shequ_list}
    IN /\ settings' = update_shequ_settings(settings, update_list)
       /\ orders' = IF toggled # {} THEN delete_orders_by_shequ_ids(orders, toggled)
                    ELSE orders

HandleShequCallback ==
    /\ upd.pc = "idle" /\ ~Running(scan)
    /\ ntog < MaxToggles
    /\ ntog' = ntog + 1
    /\ \E shequ_id \in Channels, shequ_list \in ShequLists :
          ToggleShequ(shequ_id, shequ_list)
    /\ UNCHANGED <<now, tasks, backend, upd, scan, outbox, notified, nupd, nextScan,
                   probe>>

\* the orders of the listing, as records of the backend
RECURSIVE ListedOrders(_)
ListedOrders(ids) ==
    IF ids = <<>> THEN <<>>
    ELSE <<BackendOrder(Head(ids), backend[Head(ids)])>> \o ListedOrders(Tail(ids))

\* OrderSyncService.sync_recent_orders / check_new_orders, given the listing
\* the backend returned
SyncOrders(listed) ==
    LET selected == get_selected_shequ_ids(settings)
        all == is_all_shequ_selected(settings)
        filtered == IF ~all /\ selected # {}
                    THEN SelectSeq(listed, LAMBDA o : o.ShequId \in selected)
                    ELSE listed
        stored == IF listed # <<>> THEN insert_orders_batch(orders, filtered)
                  ELSE orders
    IN orders' = delete_expired_orders(stored, 2, now)

\* one cycle of the bulk sync thread
SyncCycle ==
    /\ \E ids \in BackendLists : SyncOrders(ListedOrders(ids))
    /\ orders' # orders
    /\ UNCHANGED <<now, tasks, settings, backend, upd, scan, outbox, notified, nupd,
                   nextScan, probe, ntog>>

\* an order changes its state at the backend
BackendChange ==
    /\ \E o \in OrderIds : \E st \in BackendAfter(backend[o]) :
          backend' = [backend EXCEPT ![o] = st]
    /\ UNCHANGED <<now, orders, tasks, settings, upd, scan, outbox, notified, nupd,
                   nextScan, probe, ntog>>

\* time passes
Tick ==
    /\ now < MaxTime
    /\ now' = now + 1
    /\ UNCHANGED <<orders, tasks, settings, backend, upd, scan, outbox, notified,
                   nupd, ntog, nextScan, probe>>

Next ==
    \/ \E text \in MsgTexts : HandleMessage(text)
    \/ MsgLink
    \/ MsgReplyDone
    \/ MsgReplyFail
    \/ MsgPoll
    \/ HandleShequCallback
    \/ ScanStart
    \/ ScanPoll
    \/ \E p \in {"upd", "scan"} : NotifyOk(p)
    \/ \E p \in {"upd", "scan"} : Notify1Fail(p)
    \/ \E p \in {"upd", "scan"} : Notify2Fail(p)
    \/ SyncCycle
    \/ BackendChange
    \/ Tick

Spec == Init /\ [][Next]_vars

(***************************************************************************)
(* get_due_sync_tasks on its own: tasks are added and polled at the times  *)
(* of a clock, and the query is asked with an interval.                    *)
(***************************************************************************)
DueIds == {1, 2, 3}
DueIntervals == {1, 2}

\* the bot is at rest: no message, button press, job or bulk sync runs
Elsewhere ==
    UNCHANGED <<settings, backend, upd, scan, outbox, notified, nupd, ntog,
                nextScan>>

\* add_sync_task as handle_message calls it
DueAdd(o) ==
    /\ probe = Null
    /\ tasks' = add_sync_task(tasks, o, CHAT, 1, 0, 0, now)
    /\ UNCHANGED <<now, probe, orders>>
    /\ Elsewhere

\* update_sync_task as a poll calls it, at the time of the poll
DuePolled(o) ==
    /\ probe = Null
    /\ \E r \in tasks : /\ r.order_id = o
                        /\ r.last_synced_at # now
                        /\ tasks' = update_sync_task(tasks, o, 1, now, None)
    /\ UNCHANGED <<now, probe, orders>>
    /\ Elsewhere

DueTick ==
    /\ probe = Null
    /\ now < MaxDue
    /\ now' = now + 1
    /\ UNCHANGED <<tasks, probe, orders>>
    /\ Elsewhere

\* the query and what it returned
DueQuery(interval_seconds) ==
    /\ probe = Null
    /\ probe' = [interval |-> interval_seconds,
                 due |-> get_due_sync_tasks(tasks, interval_seconds, now)]
    /\ UNCHANGED <<now, tasks, orders>>
    /\ Elsewhere

DueReturn ==
    /\ probe # Null
    /\ probe' = Null
    /\ UNCHANGED <<now, tasks, orders>>
    /\ Elsewhere

NextDue ==
    \/ \E o \in DueIds : DueAdd(o)
    \/ \E o \in DueIds : DuePolled(o)
    \/ DueTick
    \/ \E i \in DueIntervals : DueQuery(i)
    \/ DueReturn

SpecDue == Init /\ [][NextDue]_vars

(***************************************************************************)
(* find_order_by_douyin_url on its own: orders are ingested and ingested   *)
(* again, and links are looked up.                                         *)
(***************************************************************************)
FindUrls == {U1, U2, U3}

\* an order of the backend with the given creation time and link
FindOrder(o, create_at, url) ==
    [BackendOrder(o, "pending") EXCEPT !.CreateAt = create_at, !.Params = <<url>>]

\* the rows of the order store, whatever their place in the table
Stored(ords) == {ords[i] : i \in 1..Len(ords)}

FindIngest(o, create_at, url) ==
    /\ orders' = insert_order(orders, FindOrder(o, create_at, url))
    /\ UNCHANGED <<probe, now, tasks>>
    /\ Elsewhere

\* the lookup, with the link, the stored rows and what it returned
FindLookup(url) ==
    /\ probe' = [url |-> url, stored |-> Stored(orders),
                 found |-> find_order_by_douyin_url(orders, url)]
    /\ UNCHANGED <<orders, now, tasks>>
    /\ Elsewhere

NextFind ==
    \/ \E o \in OrderIds, t \in 1..MaxCreateAt, u \in FindUrls : FindIngest(o, t, u)
    \/ \E u \in FindUrls : FindLookup(u)

SpecFind == Init /\ [][NextFind]_vars

(***************************************************************************)
(* normalize_url on its own: a text is normalized, the result is           *)
(* normalized again, and the text with one more "/" is normalized.         *)
(***************************************************************************)
NormToks == {HTTPS, DOMAIN_TOK, SLASH, SPACE, "a"}
NormTexts == UNION {[1..n -> NormToks] : n \in 0..MaxUrlLen}

NormCall(url) ==
    /\ probe = Null
    /\ probe' = [url |-> url, seen |-> <<normalize_url(url)>>, slashed |-> <<>>]
    /\ UNCHANGED <<now, tasks, orders>>
    /\ Elsewhere

NormAgain ==
    /\ probe # Null /\ Len(probe.seen) = 1
    /\ probe' = [probe EXCEPT !.seen = Append(@, normalize_url(@[1]))]
    /\ UNCHANGED <<now, tasks, orders>>
    /\ Elsewhere

NormSlashed ==
    /\ probe # Null /\ probe.slashed = <<>>
    /\ probe' = [probe EXCEPT !.slashed = <<normalize_url(Append(probe.url, SLASH))>>]
    /\ UNCHANGED <<now, tasks, orders>>
    /\ Elsewhere

NormReturn ==
    /\ probe # Null
    /\ probe' = Null
    /\ UNCHANGED <<now, tasks, orders>>
    /\ Elsewhere

NextNorm ==
    \/ \E url \in NormTexts : NormCall(url)
    \/ NormAgain
    \/ NormSlashed
    \/ NormReturn

SpecNorm == Init /\ [][NextNorm]_vars

(***************************************************************************)
(* get_orders_page on its own: the retry loop over the requests of one     *)
(* page, each of which succeeds, answers with another status, or raises.   *)
(***************************************************************************)
PageOutcomes == {"ok", "status", "exception"}
Pages == {1, 2}
PageChannels == {None, "7"}

\* a wait that does not grow with the attempts
wait_time_fixed(attempt) == 2

\* the seconds get_orders_page sleeps after the failed attempt (0-based)
wait_time(attempt) == (attempt + 1) * 2

PageCall(page, shequ_id, max_retries) ==
    /\ probe = Null
    /\ probe' = [page |-> page, shequ_id |-> shequ_id, max_retries |-> max_retries,
                 attempt |-> 0, outcomes |-> <<>>, waits |-> <<>>,
                 pc |-> IF max_retries > 0 THEN "request" ELSE "done",
                 result |-> None]
    /\ UNCHANGED <<now, tasks, orders>>
    /\ Elsewhere

\* one turn of the loop: the request, and the sleep or the return after it
PageRequest(outcome) ==
    /\ probe # Null /\ probe.pc = "request"
    /\ probe' =
          IF outcome = "ok"
          THEN [probe EXCEPT !.outcomes = Append(@, outcome), !.pc = "done",
                             !.result = "json"]
          ELSE IF probe.attempt < probe.max_retries - 1
          THEN [probe EXCEPT !.outcomes = Append(@, outcome),
                             !.waits = Append(@, wait_time(probe.attempt)),
                             !.attempt = @ + 1]
          ELSE [probe EXCEPT !.outcomes = Append(@, outcome), !.pc = "done",
                             !.result = None]
    /\ UNCHANGED <<now, tasks, orders>>
    /\ Elsewhere

PageReturn ==
    /\ probe # Null /\ probe.pc = "done"
    /\ probe' = Null
    /\ UNCHANGED <<now, tasks, orders>>
    /\ Elsewhere

NextPage ==
    \/ \E page \in Pages, shequ_id \in PageChannels, max_retries \in 0..MaxRetries :
          PageCall(page, shequ_id, max_retries)
    \/ \E outcome \in PageOutcomes : PageRequest(outcome)
    \/ PageReturn

SpecPage == Init /\ [][NextPage]_vars

(***************************************************************************)
(* sync_order on its own: per attempt the status check through             *)
(* get_order_detail, then the POST of the resync.                          *)
(***************************************************************************)
LogWords == {XIADAN, TUIDANZHONG, YITUIKUAN, YITUIDAN, TUIKUANZHONG}

\* the logs an order can have on the backend: one or two entries of one word
ResyncLogs ==
    {[kind |-> "list", entries |-> e] :
        e \in {<<<<w>>>> : w \in LogWords} \cup
              {<<<<v>>, <<w>>>> : v \in {XIADAN, YITUIKUAN}, w \in LogWords}}

PostOutcomes == {"ok", "error", "status", "exception"}

\* the default max_retries of get_orders_page, which get_order_detail uses
DefaultRetries == 10

\* the requests of one listing that fail before one succeeds; DefaultRetries
\* when they all fail
ListingFailures == {0, 1, 2, DefaultRetries}

\* the seconds get_orders_page sleeps over n failed requests that are each
\* followed by another request
RECURSIVE BackoffTotal(_)
BackoffTotal(n) == IF n = 0 THEN 0 ELSE BackoffTotal(n - 1) + wait_time(n - 1)

\* the seconds one listing sleeps in all: the last request of the call is not
\* followed by a sleep
ListingWait(failed) ==
    BackoffTotal(IF failed >= DefaultRetries THEN DefaultRetries - 1 ELSE failed)

\* OrderAPI.get_order_detail: the order as the first page of the listing shows
\* it, or None when the listing fails or does not hold the order
get_order_detail(order_id, logs, listed) ==
    IF listed THEN [BackendOrder(order_id, "pending") EXCEPT !.Logs = logs]
    ELSE Null

\* the refund word the check of sync_order finds in the logs of the detail
LoggedStatus(order_detail) ==
    IF order_detail = Null THEN None
    ELSE FirstKeyword(keywords, {k \in KeywordsOf : RawHas(order_detail.Logs, k)})

SyncResult(success, attempt, refund_status) ==
    [success |-> success, attempt |-> attempt, refund_status |-> refund_status]

ResyncCall(order_id, max_retries) ==
    /\ probe = Null
    /\ probe' = [order_id |-> order_id, max_retries |-> max_retries,
                 attempt |-> 0, checks |-> 0, posts |-> 0,
                 sleeps |-> 0, waited |-> 0,
                 logs |-> Null, listed |-> FALSE,
                 pc |-> IF max_retries > 0 THEN "check" ELSE "done",
                 result |-> IF max_retries > 0 THEN Null
                            ELSE SyncResult(FALSE, max_retries, None)]
    /\ UNCHANGED <<now, tasks, orders>>
    /\ Elsewhere

\* the check before the POST of one attempt; logs are the logs the order has
\* on the backend at that moment, failed the requests of the listing that
\* failed (the order is not listed when they all did)
ResyncCheck(logs, listed, failed) ==
    /\ probe # Null /\ probe.pc = "check"
    /\ failed = DefaultRetries => ~listed
    /\ LET hit == LoggedStatus(get_order_detail(probe.order_id, logs, listed))
       IN probe' = [probe EXCEPT !.checks = @ + 1, !.logs = logs, !.listed = listed,
                                 !.waited = @ + ListingWait(failed),
                                 !.pc = IF hit # None THEN "done" ELSE "post",
                                 !.result = IF hit # None
                                            THEN SyncResult(FALSE, probe.attempt + 1, hit)
                                            ELSE Null]
    /\ UNCHANGED <<now, tasks, orders>>
    /\ Elsewhere

\* the POST of one attempt, and the sleep or the return after it
ResyncPost(outcome) ==
    /\ probe # Null /\ probe.pc = "post"
    /\ probe' =
          IF outcome = "ok"
          THEN [probe EXCEPT !.posts = @ + 1, !.pc = "done",
                             !.result = SyncResult(TRUE, probe.attempt + 1, None)]
          ELSE IF probe.attempt < probe.max_retries - 1
          THEN [probe EXCEPT !.posts = @ + 1, !.attempt = @ + 1, !.sleeps = @ + 1,
                             !.pc = "check"]
          ELSE [probe EXCEPT !.posts = @ + 1, !.pc = "done",
                             !.result = SyncResult(FALSE, probe.attempt + 1, None)]
    /\ UNCHANGED <<now, tasks, orders>>
    /\ Elsewhere

ResyncReturn ==
    /\ probe # Null /\ probe.pc = "done"
    /\ probe' = Null
    /\ UNCHANGED <<now, tasks, orders>>
    /\ Elsewhere

NextResync ==
    \/ \E order_id \in OrderIds, max_retries \in 0..MaxRetries :
          ResyncCall(order_id, max_retries)
    \/ \E logs \in ResyncLogs, listed \in BOOLEAN, failed \in ListingFailures :
          ResyncCheck(logs, listed, failed)
    \/ \E outcome \in PostOutcomes : ResyncPost(outcome)
    \/ ResyncReturn

SpecResync == Init /\ [][NextResync]_vars

(***************************************************************************)
(* extract_refund_status on its own, over order records whose logs are a   *)
(* list of entries or a plain text of several parts, oldest first.         *)
(***************************************************************************)
EntryWords == {XIADAN, TUIDANZHONG, YITUIKUAN, YITUIDAN}
LogEntries == UNION {[1..n -> {<<w>> : w \in EntryWords}] : n \in 0..MaxEntries}
StatusTexts == {Null, <<XIADAN>>, <<YITUIKUAN>>}

OrderDetails ==
    {Null} \cup
    {[Id |-> 1, Logs |-> [kind |-> k, entries |-> e], OrderStatusText |-> t] :
        k \in {"list", "text"}, e \in LogEntries, t \in StatusTexts}

ExtractCall(order_detail) ==
    /\ probe = Null
    /\ probe' = [order_detail |-> <<order_detail>>,
                 result |-> extract_refund_status(order_detail)]
    /\ UNCHANGED <<now, tasks, orders>>
    /\ Elsewhere

ExtractReturn ==
    /\ probe # Null
    /\ probe' = Null
    /\ UNCHANGED <<now, tasks, orders>>
    /\ Elsewhere

NextExtract ==
    \/ \E order_detail \in OrderDetails : ExtractCall(order_detail)
    \/ ExtractReturn

SpecExtract == Init /\ [][NextExtract]_vars

(***************************************************************************)
(* The poll of one task from the fetch of the order to the update of the   *)
(* task, over logs of every shape a string can decode to: a list, a plain  *)
(* text, a JSON scalar, null, a JSON string, or an object (its keys are    *)
(* the entries).                                                           *)
(***************************************************************************)
IterableKinds == {"list", "text", "string", "object"}
BareKinds == {"scalar", "null"}

ShapedDetails ==
    {[Id |-> 1, Logs |-> [kind |-> k, entries |-> e], OrderStatusText |-> t] :
        k \in IterableKinds, e \in LogEntries, t \in StatusTexts}
    \cup
    {[Id |-> 1, Logs |-> [kind |-> k, entries |-> <<>>], OrderStatusText |-> t] :
        k \in BareKinds, t \in StatusTexts}

\* reversed(log_entries) raises TypeError when the string decoded to a number,
\* a boolean or null
ExtractRaises(order_detail) ==
    order_detail # Null /\ order_detail.Logs.kind \in BareKinds

\* get_order_status_by_id has returned order_detail and insert_order stored it
ShapeFetch(order_detail) ==
    /\ probe = Null
    /\ probe' = [order_detail |-> <<order_detail>>, pc |-> "fetched",
                 refund_status |-> None]
    /\ UNCHANGED <<now, tasks, orders>>
    /\ Elsewhere

\* extract_refund_status and, when it returns, update_sync_task
ShapeExtract ==
    /\ probe # Null /\ probe.pc = "fetched"
    /\ probe' = IF ExtractRaises(probe.order_detail[1])
                THEN [probe EXCEPT !.pc = "raised"]
                ELSE [probe EXCEPT !.pc = "updated",
                         !.refund_status = extract_refund_status(probe.order_detail[1])]
    /\ UNCHANGED <<now, tasks, orders>>
    /\ Elsewhere

ShapeReturn ==
    /\ probe # Null /\ probe.pc \in {"raised", "updated"}
    /\ probe' = Null
    /\ UNCHANGED <<now, tasks, orders>>
    /\ Elsewhere

NextShape ==
    \/ \E order_detail \in ShapedDetails : ShapeFetch(order_detail)
    \/ ShapeExtract
    \/ ShapeReturn

SpecShape == Init /\ [][NextShape]_vars

(***************************************************************************)
(* _get_shequ_orders on its own: the pages of one channel's listing.  An   *)
(* order of a page is its CreateAt day: 0 for no date, 1 before the        *)
(* cutoff, 2 in the window, 3 after today.                                 *)
(***************************************************************************)
cutoff_date == 2
today_date == 2
CreateDays == 0..3
PageContents == UNION {[1..n -> [CreateAt : CreateDays]] : n \in 0..PageSize}

\* the scan of a page that never stops at an order before the cutoff
RECURSIVE ScanPageFilterOnly(_, _, _)
ScanPageFilterOnly(page_orders, i, recent) ==
    IF i > Len(page_orders) THEN [recent |-> recent, should_break |-> FALSE]
    ELSE LET create_at == page_orders[i].CreateAt
         IN IF create_at # 0 /\ cutoff_date <= create_at /\ create_at <= today_date
            THEN ScanPageFilterOnly(page_orders, i + 1, Append(recent, page_orders[i]))
            ELSE ScanPageFilterOnly(page_orders, i + 1, recent)

\* the loop over the orders of a page, from order i on
RECURSIVE ScanPage(_, _, _)
ScanPage(page_orders, i, recent) ==
    IF i > Len(page_orders) THEN [recent |-> recent, should_break |-> FALSE]
    ELSE LET create_at == page_orders[i].CreateAt
         IN IF create_at = 0 THEN ScanPage(page_orders, i + 1, recent)
            ELSE IF cutoff_date <= create_at /\ create_at <= today_date
            THEN ScanPage(page_orders, i + 1, Append(recent, page_orders[i]))
            ELSE IF create_at < cutoff_date
            THEN [recent |-> recent, should_break |-> TRUE]
            ELSE ScanPage(page_orders, i + 1, recent)

PagingCall(shequ_id) ==
    /\ probe = Null
    /\ probe' = [shequ_id |-> shequ_id, page |-> 1, orders |-> <<>>,
                 pc |-> "request", result |-> "start", last |-> <<>>]
    /\ UNCHANGED <<now, tasks, orders>>
    /\ Elsewhere

\* get_orders_page returned None, or a result whose error is not 0
PagingFailed(result) ==
    /\ probe # Null /\ probe.pc = "request" /\ probe.page <= MaxPage
    /\ probe' = [probe EXCEPT !.page = @ + 1, !.result = result, !.last = <<>>,
                              !.pc = IF probe.page + 1 > PageCap THEN "done"
                                     ELSE "request"]
    /\ UNCHANGED <<now, tasks, orders>>
    /\ Elsewhere

\* get_orders_page returned the orders page_orders
PagingPage(page_orders) ==
    /\ probe # Null /\ probe.pc = "request" /\ probe.page <= MaxPage
    /\ LET scanned == ScanPage(page_orders, 1, <<>>)
       IN probe' =
             IF page_orders = <<>>
             THEN [probe EXCEPT !.pc = "done", !.result = "ok",
                                !.last = <<page_orders>>]
             ELSE IF scanned.should_break \/ Len(page_orders) < PageSize
             THEN [probe EXCEPT !.orders = @ \o scanned.recent, !.pc = "done",
                                !.result = "ok", !.last = <<page_orders>>]
             ELSE [probe EXCEPT !.orders = @ \o scanned.recent, !.page = @ + 1,
                                !.result = "ok", !.last = <<page_orders>>]
    /\ UNCHANGED <<now, tasks, orders>>
    /\ Elsewhere

PagingReturn ==
    /\ probe # Null /\ probe.pc = "done"
    /\ probe' = Null
    /\ UNCHANGED <<now, tasks, orders>>
    /\ Elsewhere

NextPaging ==
    \/ \E shequ_id \in PageChannels : PagingCall(shequ_id)
    \/ \E result \in {"none", "error"} : PagingFailed(result)
    \/ \E page_orders \in PageContents : PagingPage(page_orders)
    \/ PagingReturn

SpecPaging == Init /\ [][NextPaging]_vars

(***************************************************************************)
(* The while loop of _get_shequ_orders as a loop that may go on for ever:  *)
(* the page numbers beyond the cap of the failure path are one state (the  *)
(* test page > 100 is the only use of the number), and the collected       *)
(* orders are left out.                                                    *)
(***************************************************************************)
NextPageNo(page) == IF page + 1 > PageCap THEN PageCap + 1 ELSE page + 1

FetchCall(shequ_id) ==
    /\ probe = Null
    /\ probe' = [shequ_id |-> shequ_id, page |-> 1, pc |-> "request",
                 result |-> "start", last |-> <<>>]
    /\ UNCHANGED <<now, tasks, orders>>
    /\ Elsewhere

\* get_orders_page returned None, or a result whose error is not 0
FetchFailed(result) ==
    /\ probe # Null /\ probe.pc = "request"
    /\ probe' = [probe EXCEPT !.page = NextPageNo(probe.page), !.result = result,
                              !.last = <<>>,
                              !.pc = IF probe.page + 1 > PageCap THEN "done"
                                     ELSE "request"]
    /\ UNCHANGED <<now, tasks, orders>>
    /\ Elsewhere

\* get_orders_page returned the orders page_orders
FetchPage(page_orders) ==
    /\ probe # Null /\ probe.pc = "request"
    /\ LET scanned == ScanPage(page_orders, 1, <<>>)
       IN probe' =
             IF page_orders = <<>>
                \/ scanned.should_break \/ Len(page_orders) < PageSize
             THEN [probe EXCEPT !.pc = "done", !.result = "ok",
                                !.last = <<page_orders>>]
             ELSE [probe EXCEPT !.page = NextPageNo(probe.page), !.result = "ok",
                                !.last = <<page_orders>>]
    /\ UNCHANGED <<now, tasks, orders>>
    /\ Elsewhere

FetchReturn ==
    /\ probe # Null /\ probe.pc = "done"
    /\ probe' = Null
    /\ UNCHANGED <<now, tasks, orders>>
    /\ Elsewhere

NextFetch ==
    \/ \E shequ_id \in PageChannels : FetchCall(shequ_id)
    \/ \E result \in {"none", "error"} : FetchFailed(result)
    \/ \E page_orders \in PageContents : FetchPage(page_orders)
    \/ FetchReturn

\* the thread of the listing runs, and every request of a page returns
SpecFetch == Init /\ [][NextFetch]_vars /\ WF_vars(NextFetch)

(***************************************************************************)
(* The fan-out of get_recent_orders and get_new_orders: one listing task   *)
(* per channel in a thread pool, collected as the tasks complete.          *)
(***************************************************************************)
AllKey == 0     \* the key of the one task that lists every channel (None)
FanFunctions == {"get_recent_orders", "get_new_orders"}
FanKeySets == {{AllKey}} \cup (SUBSET Channels \ {{}})
TaskResults == {<<>>, <<1>>, <<2>>, <<1, 2>>}

\* a collector that gives up at the first task that failed
CollectAbort(call, key) ==
    IF call.state[key] = "failed" THEN [call EXCEPT !.pc = "returned"]
    ELSE [call EXCEPT !.collected = @ \cup {key},
                      !.all_orders = @ \o call.orders[key]]

\* one turn of the loop over as_completed: future.result() in its try
Collect(call, key) ==
    IF call.state[key] = "failed" THEN [call EXCEPT !.collected = @ \cup {key}]
    ELSE [call EXCEPT !.collected = @ \cup {key},
                      !.all_orders = @ \o call.orders[key]]

FanCall(fn, keys) ==
    /\ probe = Null
    /\ probe' = [fn |-> fn, keys |-> keys,
                 state |-> [k \in keys |-> "running"],
                 orders |-> [k \in keys |-> <<>>],
                 collected |-> {}, all_orders |-> <<>>, pc |-> "collect"]
    /\ UNCHANGED <<now, tasks, orders>>
    /\ Elsewhere

\* the listing of one channel returns its orders
FanTaskDone(key, result) ==
    /\ probe # Null /\ probe.pc = "collect"
    /\ key \in probe.keys /\ probe.state[key] = "running"
    /\ probe' = [probe EXCEPT !.state[key] = "done", !.orders[key] = result]
    /\ UNCHANGED <<now, tasks, orders>>
    /\ Elsewhere

\* the listing of one channel raises
FanTaskFailed(key) ==
    /\ probe # Null /\ probe.pc = "collect"
    /\ key \in probe.keys /\ probe.state[key] = "running"
    /\ probe' = [probe EXCEPT !.state[key] = "failed"]
    /\ UNCHANGED <<now, tasks, orders>>
    /\ Elsewhere

FanCollect(key) ==
    /\ probe # Null /\ probe.pc = "collect"
    /\ key \in probe.keys \ probe.collected /\ probe.state[key] # "running"
    /\ probe' = Collect(probe, key)
    /\ UNCHANGED <<now, tasks, orders>>
    /\ Elsewhere

\* the end of the with block: as_completed is exhausted and the pool is shut
FanMerged ==
    /\ probe # Null /\ probe.pc = "collect" /\ probe.collected = probe.keys
    /\ probe' = [probe EXCEPT !.pc = "returned"]
    /\ UNCHANGED <<now, tasks, orders>>
    /\ Elsewhere

FanReturn ==
    /\ probe # Null /\ probe.pc = "returned"
    /\ probe' = Null
    /\ UNCHANGED <<now, tasks, orders>>
    /\ Elsewhere

NextFan ==
    \/ \E fn \in FanFunctions, keys \in FanKeySets : FanCall(fn, keys)
    \/ \E key \in Channels \cup {AllKey}, result \in TaskResults : FanTaskDone(key, result)
    \/ \E key \in Channels \cup {AllKey} : FanTaskFailed(key)
    \/ \E key \in Channels \cup {AllKey} : FanCollect(key)
    \/ FanMerged
    \/ FanReturn

SpecFan == Init /\ [][NextFan]_vars

(***************************************************************************)
(* The bulk sync thread on its own: run_periodic_check with its first      *)
(* sync_recent_orders and the check_new_orders cycles after it, while the  *)
(* bot rewrites the channel settings.                                      *)
(***************************************************************************)
\* max(order.get('Id', 0) for order in list); list is not empty
MaxId(list) == CHOOSE m \in {list[i].Id : i \in 1..Len(list)} :
                   \A i \in 1..Len(list) : list[i].Id <= m

\* a cycle that trusts the backend to have filtered
FilterByBackend(list, shequ_ids) == list

\* the channel filter of a cycle: shequ_ids is None (here {}) in all mode
FilterSelected(list, shequ_ids) ==
    IF shequ_ids # {} THEN SelectSeq(list, LAMBDA o : o.ShequId \in shequ_ids)
    ELSE list

LoopFrame == UNCHANGED <<now, tasks, backend, upd, scan, outbox, notified, nupd,
                         ntog, nextScan>>

\* the bot replaces the settings
LoopSettings(selected) ==
    /\ settings' = update_shequ_settings(settings,
                      {[Id |-> c, is_selected |-> IF c \in selected THEN 1 ELSE 0] :
                          c \in Channels})
    /\ settings' # settings
    /\ UNCHANGED <<orders, probe>>
    /\ LoopFrame

\* the ids of the rows that are in the table after and were not before
Written(before, after) ==
    {after[i].order_id : i \in {k \in 1..Len(after) :
                                   \A m \in 1..Len(before) : before[m] # after[k]}}

\* what a cycle leaves behind for the next: the thread, the number of cycles,
\* last_order_id, and of this cycle the selection read, the listing and the
\* rows written
Cycle(alive, cycles, last_order_id, shequ_ids, ids, written) ==
    [alive |-> alive, cycles |-> cycles, last_order_id |-> last_order_id,
     shequ_ids |-> shequ_ids, listed |-> ids, written |-> written]

\* run_periodic_check up to its loop: sync_recent_orders with the listing ids
LoopFirst(ids) ==
    /\ probe = Null
    /\ LET shequ_ids == get_selected_shequ_ids(settings)
           listed == ListedOrders(ids)
           kept == FilterSelected(listed, shequ_ids)
           stored == IF listed # <<>> THEN insert_orders_batch(orders, kept) ELSE orders
       IN /\ orders' = delete_expired_orders(stored, 2, now)
          /\ probe' = Cycle(TRUE, 0, IF kept # <<>> THEN MaxId(kept) ELSE 0,
                            shequ_ids, ids, Written(orders, stored))
    /\ UNCHANGED settings
    /\ LoopFrame

\* one turn of the loop: check_new_orders with the listing ids; the max() of
\* an empty list raises ValueError, which ends the thread
LoopCheck(ids) ==
    /\ probe # Null /\ probe.alive /\ probe.cycles < MaxCycles
    /\ LET shequ_ids == get_selected_shequ_ids(settings)
           new_orders == SelectSeq(ListedOrders(ids),
                                   LAMBDA o : o.Id > probe.last_order_id)
           kept == FilterSelected(new_orders, shequ_ids)
           stored == insert_orders_batch(orders, kept)
       IN IF new_orders = <<>>
          THEN /\ orders' = delete_expired_orders(orders, 2, now)
               /\ probe' = Cycle(TRUE, probe.cycles + 1, probe.last_order_id,
                                 shequ_ids, ids, {})
          ELSE IF kept = <<>>
          THEN /\ orders' = stored
               /\ probe' = Cycle(FALSE, probe.cycles + 1, probe.last_order_id,
                                 shequ_ids, ids, {})
          ELSE /\ orders' = delete_expired_orders(stored, 2, now)
               /\ probe' = Cycle(TRUE, probe.cycles + 1, MaxId(kept),
                                 shequ_ids, ids, Written(orders, stored))
    /\ UNCHANGED settings
    /\ LoopFrame

NextLoop ==
    \/ \E selected \in SUBSET Channels : LoopSettings(selected)
    \/ \E ids \in BackendLists : LoopFirst(ids)
    \/ \E ids \in BackendLists : LoopCheck(ids)

SpecLoop == Init /\ [][NextLoop]_vars

(***************************************************************************)
(* handle_shequ_callback on its own: the buttons of the channels and the   *)
(* button for all channels, over a store the bulk sync fills.              *)
(***************************************************************************)
CallbackFrame == UNCHANGED <<now, tasks, backend, upd, scan, outbox, notified,
                             nupd, ntog, nextScan>>

\* the bulk sync stores an order
ButtonIngest(o) ==
    /\ probe = Null
    /\ ~order_exists(orders, o)
    /\ orders' = insert_order(orders, BackendOrder(o, backend[o]))
    /\ UNCHANGED <<settings, probe>>
    /\ CallbackFrame

\* the press as the handler finds it
Pressed(data) ==
    [data |-> data, settings |-> settings, orders |-> orders, pc |-> "rendered"]

\* the button of one channel, up to the keyboard shown again
ButtonToggle(shequ_id, shequ_list) ==
    /\ probe = Null
    /\ ToggleShequ(shequ_id, shequ_list)
    /\ probe' = Pressed("shequ_toggle")
    /\ CallbackFrame

\* the button "all": with no channel selected the branch that builds
\* update_list is not taken, and update_shequ_settings(update_list) raises
\* UnboundLocalError
ButtonToggleAll(shequ_list) ==
    /\ probe = Null
    /\ IF get_selected_shequ_ids(settings) = {}
       THEN /\ probe' = [Pressed("shequ_toggle_all") EXCEPT !.pc = "raised"]
            /\ UNCHANGED settings
       ELSE /\ probe' = Pressed("shequ_toggle_all")
            /\ settings' = update_shequ_settings(settings,
                              {[Id |-> c, is_selected |-> 0] : c \in shequ_list})
    /\ UNCHANGED orders
    /\ CallbackFrame

ButtonReturn ==
    /\ probe # Null
    /\ probe' = Null
    /\ UNCHANGED <<settings, orders>>
    /\ CallbackFrame

NextButtons ==
    \/ \E o \in OrderIds : ButtonIngest(o)
    \/ \E shequ_id \in Channels, shequ_list \in ShequLists :
          ButtonToggle(shequ_id, shequ_list)
    \/ \E shequ_list \in ShequLists : ButtonToggleAll(shequ_list)
    \/ ButtonReturn

SpecButtons == Init /\ [][NextButtons]_vars

(***************************************************************************)
(* main on its own: the configuration read from the environment, the       *)
(* validation, the components in the order they are built, the bulk sync   *)
(* thread and the bot.                                                     *)
(***************************************************************************)
Configs ==
    [TELEGRAM_BOT_TOKEN : {"", "token"}, API_AUTHORIZATION_TOKEN : {"", "auth"},
     API_COOKIE : {"", "cookie"}, DATABASE_PATH : {"orders.db", "other.db"}]

\* a validation that looks at the bot token only
validate_bot_token(cfg) == cfg.TELEGRAM_BOT_TOKEN # ""

\* Config.validate: TRUE when it returns, FALSE when it raises ValueError
validate(cfg) == cfg.TELEGRAM_BOT_TOKEN # "" /\ cfg.API_AUTHORIZATION_TOKEN # ""

\* the statements of main after the validation, in order
MainSteps == <<"Database", "OrderAPI", "OrderSyncService", "TelegramBot",
               "sync_thread.start", "bot.run">>

\* the process is started: Config is read from the environment
MainStart(cfg) ==
    /\ probe = Null
    /\ probe' = [cfg |-> cfg, pc |-> "setup_logging", done |-> 0, db |-> FALSE,
                 thread |-> "none", cycles |-> 0, polling |-> FALSE]
    /\ UNCHANGED <<now, tasks, orders>>
    /\ Elsewhere

\* Config.setup_logging
MainLogging ==
    /\ probe # Null /\ probe.pc = "setup_logging"
    /\ probe' = [probe EXCEPT !.pc = "validate"]
    /\ UNCHANGED <<now, tasks, orders>>
    /\ Elsewhere

\* Config.validate in its try: main returns when it raises
MainValidate ==
    /\ probe # Null /\ probe.pc = "validate"
    /\ probe' = [probe EXCEPT !.pc = IF validate(probe.cfg) THEN "init" ELSE "refused"]
    /\ UNCHANGED <<now, tasks, orders>>
    /\ Elsewhere

\* the next statement of main after the validation
MainStep ==
    /\ probe # Null /\ probe.pc = "init"
    /\ LET step == MainSteps[probe.done + 1]
       IN probe' = [probe EXCEPT
                       !.done = @ + 1,
                       !.db = @ \/ step = "Database",
                       !.thread = IF step = "sync_thread.start" THEN "started" ELSE @,
                       !.polling = @ \/ step = "bot.run",
                       !.pc = IF step = "bot.run" THEN "running" ELSE @]
    /\ UNCHANGED <<now, tasks, orders>>
    /\ Elsewhere

\* the thread of run_periodic_check goes through one sync
MainThreadCycle ==
    /\ probe # Null /\ probe.thread = "started" /\ probe.cycles < MaxCycles
    /\ probe.pc \in {"init", "running"}
    /\ probe' = [probe EXCEPT !.cycles = @ + 1]
    /\ UNCHANGED <<now, tasks, orders>>
    /\ Elsewhere

\* KeyboardInterrupt ends bot.run: sync_service.stop()
MainInterrupt ==
    /\ probe # Null /\ probe.pc = "running"
    /\ probe' = [probe EXCEPT !.pc = "stopped", !.polling = FALSE,
                              !.thread = "stopping"]
    /\ UNCHANGED <<now, tasks, orders>>
    /\ Elsewhere

NextMain ==
    \/ \E cfg \in Configs : MainStart(cfg)
    \/ MainLogging
    \/ MainValidate
    \/ MainStep
    \/ MainThreadCycle
    \/ MainInterrupt

SpecMain == Init /\ [][NextMain]_vars

(***************************************************************************)
(* delete_expired_orders on its own, over a store with orders of several   *)
(* days, sync tasks and channel settings.                                  *)
(***************************************************************************)
ExpireFrame == UNCHANGED <<now, backend, upd, scan, outbox, notified, nupd, ntog,
                           nextScan>>

\* an order created on the given day is stored
ExpireIngest(o, day) ==
    /\ probe = Null
    /\ orders' = insert_order(orders, [BackendOrder(o, "pending") EXCEPT
                                          !.CreateAt = day * DayUnits + 1])
    /\ UNCHANGED <<tasks, settings, probe>>
    /\ ExpireFrame

ExpireTask(o) ==
    /\ probe = Null
    /\ tasks' = add_sync_task(tasks, o, CHAT, 1, 0, 0, now)
    /\ tasks' # tasks
    /\ UNCHANGED <<orders, settings, probe>>
    /\ ExpireFrame

ExpireSettings(selected) ==
    /\ probe = Null
    /\ settings' = update_shequ_settings(settings,
                      {[Id |-> c, is_selected |-> IF c \in selected THEN 1 ELSE 0] :
                          c \in Channels})
    /\ settings' # settings
    /\ UNCHANGED <<orders, tasks, probe>>
    /\ ExpireFrame

\* delete_expired_orders(days), called on the given day
ExpireCall(days, today) ==
    /\ probe = Null
    /\ orders' = delete_expired_orders(orders, days, today * DayUnits)
    /\ probe' = [days |-> days, today |-> today, orders |-> orders,
                 tasks |-> tasks, settings |-> settings]
    /\ UNCHANGED <<tasks, settings>>
    /\ ExpireFrame

ExpireReturn ==
    /\ probe # Null
    /\ probe' = Null
    /\ UNCHANGED <<orders, tasks, settings>>
    /\ ExpireFrame

NextExpire ==
    \/ \E o \in OrderIds, day \in 0..MaxDay : ExpireIngest(o, day)
    \/ \E o \in OrderIds : ExpireTask(o)
    \/ \E selected \in SUBSET Channels : ExpireSettings(selected)
    \/ \E days \in 0..2, today \in 0..MaxDay : ExpireCall(days, today)
    \/ ExpireReturn

SpecExpire == Init /\ [][NextExpire]_vars

(***************************************************************************)
(* update_shequ_settings on its own, statement by statement: the UPDATE    *)
(* that clears, one INSERT OR REPLACE per listed channel, the commit; any  *)
(* of them can fail, and the except block rolls back.  The variable        *)
(* settings is the table as other connections see it.                      *)
(***************************************************************************)
SettingLists ==
    {l \in UNION {[1..n -> [Id : Channels, is_selected : {0, 1}]] :
                     n \in 0..Cardinality(Channels)} :
        \A i, j \in 1..Len(l) : l[i].Id = l[j].Id => i = j}

\* a connection in autocommit mode: every statement is visible at once
VisibleAtOnce(table, work, pc) == work

\* the table other connections see while the call is at pc with the
\* uncommitted table work
Visible(table, work, pc) == IF pc = "committed" THEN work ELSE table

\* INSERT OR REPLACE INTO shequ_settings, on the key shequ_id
ReplaceSetting(work, shequ) ==
    {r \in work : r.shequ_id # shequ.Id}
    \cup {[shequ_id |-> shequ.Id, is_selected |-> shequ.is_selected]}

SettingsFrame == UNCHANGED <<now, orders, tasks, backend, upd, scan, outbox,
                             notified, nupd, ntog, nextScan>>

\* the step of the call to pc with the uncommitted table work
SettingsStep(pc, work, written) ==
    /\ probe' = [probe EXCEPT !.pc = pc, !.work = work, !.written = written]
    /\ settings' = Visible(settings, work, pc)
    /\ SettingsFrame

SettingsCall(shequ_list) ==
    /\ probe = Null
    /\ probe' = [shequ_list |-> shequ_list, before |-> settings, work |-> settings,
                 written |-> 0, pc |-> "clear"]
    /\ UNCHANGED settings
    /\ SettingsFrame

\* UPDATE shequ_settings SET is_selected = 0
SettingsClear ==
    /\ probe # Null /\ probe.pc = "clear"
    /\ SettingsStep(IF probe.shequ_list = <<>> THEN "commit" ELSE "write",
                    {[r EXCEPT !.is_selected = 0] : r \in probe.work}, 0)

\* the INSERT OR REPLACE of the next listed channel
SettingsWrite ==
    /\ probe # Null /\ probe.pc = "write"
    /\ SettingsStep(IF probe.written + 1 = Len(probe.shequ_list) THEN "commit"
                    ELSE "write",
                    ReplaceSetting(probe.work, probe.shequ_list[probe.written + 1]),
                    probe.written + 1)

SettingsCommit ==
    /\ probe # Null /\ probe.pc = "commit"
    /\ SettingsStep("committed", probe.work, probe.written)

\* the statement the call is at raises: rollback, return False
SettingsFail ==
    /\ probe # Null /\ probe.pc \in {"clear", "write", "commit"}
    /\ SettingsStep("rolled_back", probe.work, probe.written)

SettingsReturn ==
    /\ probe # Null /\ probe.pc \in {"committed", "rolled_back"}
    /\ probe' = Null
    /\ UNCHANGED settings
    /\ SettingsFrame

NextSettings ==
    \/ \E shequ_list \in SettingLists : SettingsCall(shequ_list)
    \/ SettingsClear
    \/ SettingsWrite
    \/ SettingsCommit
    \/ SettingsFail
    \/ SettingsReturn

SpecSettings == Init /\ [][NextSettings]_vars

(***************************************************************************)
(* The bot over unbounded time: the mentions of one order, the polls and   *)
(* the due-task timer, with no button pressed and the store filled once.   *)
(* Once the clock has reached MaxTime a tick moves every timestamp back    *)
(* by one unit instead, which keeps all differences to the clock; a        *)
(* timestamp that would pass below 1 becomes 0, and such a task is due     *)
(* either way.  The attempts of a task are counted up to MaxAttempts (no   *)
(* decision of the program reads them).  probe names the order whose       *)
(* status fetch answers with its record from then on, with every send to   *)
(* the chat succeeding from then on.                                       *)
(***************************************************************************)
Settled(o) == probe # Null /\ probe.order_id = o

\* the records get_order_status_by_id can return for the order
FetchResults(order_id) ==
    IF Settled(order_id) THEN {BackendOrder(order_id, backend[order_id])}
    ELSE OrderStatusResults(order_id)

Earlier(t) == IF t > 0 THEN t - 1 ELSE 0

OrderIds_of(ords) == {ords[i].order_id : i \in 1..Len(ords)}

\* the task with its attempts as far as they are counted
Counted(task) ==
    [task EXCEPT !.attempts = IF @ >= MaxAttempts THEN MaxAttempts - 1 ELSE @]

LiveTick ==
    /\ IF now < MaxTime
       THEN now' = now + 1 /\ UNCHANGED <<tasks, nextScan>>
       ELSE /\ tasks' = {[r EXCEPT !.last_synced_at = Earlier(@)] : r \in tasks}
            /\ nextScan' = Earlier(nextScan)
            /\ UNCHANGED now
    /\ UNCHANGED <<orders, settings, backend, upd, scan, outbox, notified, nupd,
                   ntog, probe>>

\* from now on the status fetch of order o returns its record, which holds a
\* terminal refund keyword, and the sends succeed
LiveSettle(o) ==
    /\ probe = Null
    /\ backend[o] # "pending"
    /\ probe' = [order_id |-> o]
    /\ UNCHANGED <<now, orders, tasks, settings, backend, upd, scan, outbox,
                   notified, nupd, ntog, nextScan>>

LiveMsgPoll ==
    /\ upd.pc = "poll"
    /\ \E message \in SyncOrderMessages(BackendOrder(upd.task.order_id,
                                                     backend[upd.task.order_id])),
          order_detail \in FetchResults(upd.task.order_id) :
          Poll(upd, upd, Counted(upd.task), message, order_detail)
    /\ UNCHANGED <<now, settings, backend, scan, notified, nupd, nextScan, probe, ntog>>

LiveScanStart ==
    /\ scan.pc = "idle" /\ ~Running(upd)
    /\ now >= nextScan
    /\ nextScan' = nextScan + sync_interval
    /\ LET due == get_due_sync_tasks(tasks, sync_interval, now)
       IN scan' = IF due = {} THEN Idle ELSE [Idle EXCEPT !.pc = "loop", !.todo = due]
    /\ UNCHANGED <<now, orders, tasks, settings, backend, upd, outbox, notified,
                   nupd, probe, ntog>>

LiveScanPoll ==
    /\ scan.pc = "loop"
    /\ \E task \in scan.todo :
          \E message \in SyncOrderMessages(BackendOrder(task.order_id,
                                                        backend[task.order_id])),
             order_detail \in FetchResults(task.order_id) :
             Poll(scan, [scan EXCEPT !.todo = scan.todo \ {task}], Counted(task),
                  message, order_detail)
    /\ UNCHANGED <<now, settings, backend, upd, notified, nupd, nextScan, probe, ntog>>

\* a send to the chat fails: only before the sends succeed for good
LiveNotifyFail(p) ==
    /\ probe = Null
    /\ Notify1Fail(p) \/ Notify2Fail(p)

\* the cycle of the bulk sync thread that stores the order
LiveSync == orders = <<>> /\ SyncCycle /\ OrderIds_of(orders') = {2}

\* the order changes its state at the backend
LiveBackendChange == BackendChange /\ backend'[1] = backend[1]

\* a step of a coroutine that is ready to run on
LiveRun ==
    \/ MsgLink
    \/ LiveMsgPoll
    \/ LiveScanPoll
    \/ \E p \in {"upd", "scan"} : NotifyOk(p)

NextLive ==
    \/ HandleMessage(<<U2>>)
    \/ MsgLink
    \/ LiveMsgPoll
    \/ LiveScanStart
    \/ LiveScanPoll
    \/ \E p \in {"upd", "scan"} : NotifyOk(p)
    \/ \E p \in {"upd", "scan"} : LiveNotifyFail(p)
    \/ LiveSync
    \/ LiveBackendChange
    \/ LiveSettle(2)
    \/ LiveTick

\* time passes, the job queue fires the timer when it is due, every coroutine
\* of the event loop is run on, and a send to the chat returns
SpecLive ==
    /\ Init /\ [][NextLive]_vars
    /\ WF_vars(LiveTick) /\ WF_vars(LiveScanStart) /\ WF_vars(LiveRun)

(***************************************************************************)
(* The repeating timer of run and one tracked order, on a clock finer than *)
(* the interval: the job fires every interval, reads the due tasks, and    *)
(* the poll records its time after the requests to the backend, which      *)
(* take time.  probe holds the timer and the times of the last two polls.  *)
(***************************************************************************)

\* the intervals of the timer, in units of its clock: a poll that takes one
\* unit takes less than the interval
TimerIntervals == {2, 3}

\* handle_message tracks the order and polls it at once; run_repeating is
\* given the interval, first firing one interval from now
TimerStart(interval) ==
    /\ probe = Null /\ tasks = {}
    /\ tasks' = update_sync_task(add_sync_task(tasks, 1, CHAT, 1, 0, 0, now),
                                 1, 1, now, None)
    /\ probe' = [interval |-> interval, next |-> now + interval, picked |-> {},
                 scanned |-> 0, prev |-> 0, last |-> now]
    /\ UNCHANGED <<now, orders>>
    /\ Elsewhere

\* time passes: before the message, up to the next firing of the timer, and
\* by at most one unit between a scan and the polls of its tasks
TimerTick ==
    /\ now < MaxClock
    /\ probe # Null =>
          /\ now < probe.next
          /\ probe.picked # {} => now < probe.scanned + 1
    /\ now' = now + 1
    /\ UNCHANGED <<tasks, probe, orders>>
    /\ Elsewhere

\* process_sync_queue fires and reads the due tasks
TimerScan ==
    /\ probe # Null /\ now = probe.next /\ probe.picked = {}
    /\ probe' = [probe EXCEPT !.next = @ + probe.interval, !.scanned = now,
                              !.picked = get_due_sync_tasks(tasks, probe.interval, now)]
    /\ UNCHANGED <<now, tasks, orders>>
    /\ Elsewhere

\* _process_single_sync_task records the poll once its requests have returned
TimerPoll ==
    /\ probe # Null
    /\ \E task \in probe.picked :
          /\ tasks' = update_sync_task(tasks, task.order_id, task.attempts + 1, now,
                                       None)
          /\ probe' = [probe EXCEPT !.picked = @ \ {task}, !.prev = probe.last,
                                    !.last = now]
    /\ UNCHANGED <<now, orders>>
    /\ Elsewhere

NextTimer ==
    \/ \E interval \in TimerIntervals : TimerStart(interval)
    \/ TimerTick
    \/ TimerScan
    \/ TimerPoll

SpecTimer == Init /\ [][NextTimer]_vars

(***************************************************************************)
(* The two tests of a terminal state side by side: is_refund_status on the *)
(* stored row of an order record, as handle_message applies it, and        *)
(* extract_refund_status on the record, as a poll applies it.              *)
(***************************************************************************)
DetectWords == EntryWords \cup {TUIKUANZHONG}
DetectEntries == UNION {[1..n -> {<<w>> : w \in DetectWords}] : n \in 0..MaxEntries}
DetectCodes == {-1, 1}

DetectRecords ==
    {[Id |-> 1, CreateAt |-> 1, Params |-> <<U1>>, ShequId |-> 7,
      OrderStatus |-> c, Logs |-> [kind |-> k, entries |-> e],
      OrderStatusText |-> t] :
        c \in DetectCodes, k \in {"list", "text"}, e \in DetectEntries,
        t \in StatusTexts}

\* insert_order has stored the record; handle_message tests the row, a poll
\* tests the record
DetectCall(order) ==
    /\ probe = Null
    /\ probe' = [order |-> <<order>>,
                 skipped |-> is_refund_status(OrderRow(order)),
                 refund_status |-> extract_refund_status(order),
                 from_logs |-> extract_refund_status_logs_only(order)]
    /\ UNCHANGED <<now, tasks, orders>>
    /\ Elsewhere

DetectReturn ==
    /\ probe # Null
    /\ probe' = Null
    /\ UNCHANGED <<now, tasks, orders>>
    /\ Elsewhere

NextDetect ==
    \/ \E order \in DetectRecords : DetectCall(order)
    \/ DetectReturn

SpecDetect == Init /\ [][NextDetect]_vars

(***************************************************************************)
(* Properties                                                              *)
(***************************************************************************)

\* C1: under every interleaving of handle_message and process_sync_queue, an
\* order that has been tracked (add_sync_task) is notified of its terminal
\* refund status exactly once: at no time have two notifications been
\* delivered for an order since it was last tracked.
C1_ExactlyOneNotification == \A o \in OrderIds : notified[o] <= 1

\* the rows of the task table for an order
TaskRows(ts, o) == {r \in ts : r.order_id = o}

\* the orders polled in a step: by the handler, or by the job from its list
PolledNow ==
    (IF upd.pc = "poll" /\ upd'.pc # "poll" THEN {upd.task.order_id} ELSE {})
    \cup (IF scan.pc = "loop" THEN {t.order_id : t \in scan.todo \ scan'.todo}
          ELSE {})

\* a step of the loop of handle_message over the link at the head
LinkStep == upd.pc = "loop" /\ upd' # upd
LinkOrder == find_order_by_douyin_url(orders, Head(upd.urls))

\* C2: a task row is deleted only by a poll that extracted a refund status and
\* only when its notification has been delivered; when both sends of
\* _notify_user fail the row stays in the store, polled no later than now.
C2_DeleteOnlyAfterNotify ==
    [][/\ \A o \in OrderIds :
             TaskRows(tasks, o) # {} /\ TaskRows(tasks', o) = {} =>
                 \E p \in {"upd", "scan"} :
                    /\ Co(p).pc \in {"notify1", "notify2"}
                    /\ Co(p).task.order_id = o
                    /\ Co(p).refund \in KeywordsOf
                    /\ notified'[o] = notified[o] + 1
       /\ \A p \in {"upd", "scan"} :
             Co(p).pc = "notify2" /\ Co(p) # Co(p)' /\ notified' = notified =>
                 /\ tasks' = tasks
                 /\ \A r \in TaskRows(tasks, Co(p).task.order_id) :
                       r.last_synced_at <= now /\ r.last_synced_at > 0]_vars

\* both sends have failed for a task that is still stored
C2_Witness ==
    /\ upd.pc = "idle" /\ scan.pc = "idle"
    /\ \E r \in tasks : r.status_text \in KeywordsOf

\* C3: every poll of a stored task sets its attempts to the stored value plus
\* one, whatever polls and mentions interleave.
C3_AttemptsPlusOne ==
    [][\A o \in PolledNow :
          \A r \in TaskRows(tasks, o) :
             \A q \in TaskRows(tasks', o) : q.attempts = r.attempts + 1]_vars

\* C4: the task table never holds two rows of one order, and right after
\* add_sync_task the one row of the order has attempts 0, last_synced_at 0 and
\* the destination of the message that mentioned it.
C4_OneTaskPerOrder ==
    /\ \A r1, r2 \in tasks : r1.order_id = r2.order_id => r1 = r2
    /\ upd.pc = "poll" =>
          /\ TaskRows(tasks, upd.task.order_id) # {}
          /\ \A r \in TaskRows(tasks, upd.task.order_id) :
                /\ r.attempts = 0 /\ r.last_synced_at = 0
                /\ r.chat_id = CHAT /\ r.message_id = upd.mid

\* add_sync_task has overwritten the row of an order that was tracked before
\* (the row still carries the status text of an earlier poll)
C4_Witness ==
    /\ upd.pc = "poll"
    /\ \E r \in TaskRows(tasks, upd.task.order_id) :
          r.status_text # None /\ r.message_id = 2

TerminalLogs(order) == \E k \in KeywordsOf : RawHas(order.logs, k)

\* the order is channel-permitted under the stored settings
Permitted(order) ==
    \/ is_all_shequ_selected(settings)
    \/ order.shequ_id \in get_selected_shequ_ids(settings)

C8_SkippedReply ==
    [][LinkStep =>
          LET selected == get_selected_shequ_ids(settings)
          IN /\ LinkOrder # Null /\ selected # {}
                   /\ LinkOrder.shequ_id \notin selected =>
                      /\ outbox' = Append(outbox, SkipReply(upd.mid))
                      /\ tasks' = tasks
             /\ selected = {} =>
                   \A i \in 1..Len(outbox') :
                      outbox'[i].kind = "skip" => i <= Len(outbox) /\ outbox[i] = outbox'[i]
      ]_vars

\* the 'skipped' reply is on its way
C8_Witness ==
    /\ upd.pc = "reply"
    /\ \E i \in 1..Len(outbox) : outbox[i] = SkipReply(upd.mid)

\* C9: a link that matches no stored order is answered with a reply of its
\* own, which is not the out-of-channel reply.
C9_NoMatchReply ==
    [][LinkStep /\ LinkOrder = Null =>
          /\ Len(outbox') = Len(outbox) + 1
          /\ outbox'[Len(outbox')].kind # "skip"]_vars

\* C5, as claimed: get_due_sync_tasks returns exactly the tasks whose
\* last_synced_at is 0 or older than now - interval; of tasks last polled at
\* now, now - interval - 1 and 0 it returns the latter two.
C5_DueOlderThan ==
    probe # Null =>
        probe.due = {r \in tasks : \/ r.last_synced_at = 0
                                   \/ r.last_synced_at < now - probe.interval}

\* C5, amended: get_due_sync_tasks returns exactly the tasks whose
\* last_synced_at is 0 or not later than now - interval, so a task polled
\* exactly one interval ago is due; no due task is left out, and of tasks last
\* polled at now, now - interval - 1 and 0 it returns the latter two.
C5_DueAtOrOlderThan ==
    probe # Null =>
        /\ probe.due = {r \in tasks : \/ r.last_synced_at = 0
                                      \/ now - r.last_synced_at >= probe.interval}
        /\ \A a, b, c \in tasks :
              /\ a.last_synced_at = now
              /\ b.last_synced_at = now - probe.interval - 1
              /\ c.last_synced_at = 0
              /\ tasks = {a, b, c}
              => probe.due = {b, c}

\* the query has been asked of three tasks: one polled now, one polled exactly
\* one interval ago, one never polled
C5_Witness ==
    /\ probe # Null
    /\ \E a, b, c \in tasks :
          /\ a.last_synced_at = now
          /\ b.last_synced_at = now - probe.interval /\ b.last_synced_at > 0
          /\ c.last_synced_at = 0
          /\ a \notin probe.due /\ b \in probe.due /\ c \in probe.due

\* the rows of the store that match a link
Matching(ords, url) ==
    {r \in Stored(ords) : UrlMatches(r.douyin_url, normalize_url(url))}

\* C10: find_order_by_douyin_url returns a matching order of the greatest
\* create_at, and the same stored orders and link always give the same order.
C10_MostRecentDeterministic ==
    [][probe' # probe =>
          LET m == Matching(orders, probe'.url)
          IN /\ m = {} => probe'.found = Null
             /\ m # {} => /\ probe'.found \in m
                          /\ \A r \in m : r.create_at <= probe'.found.create_at
             /\ probe # Null /\ probe.url = probe'.url
                   /\ probe.stored = probe'.stored
                => probe'.found = probe.found]_vars

\* the rows of the store whose link equals the normalized link
ExactMatching(ords, url) ==
    {r \in Stored(ords) : r.douyin_url = normalize_url(url)}

\* C11: when some stored order's link equals the normalized link, the order
\* find_order_by_douyin_url returns is one of those exact matches, never one
\* whose link only contains the core of the link.
C11_ExactFirst ==
    [][probe' # probe /\ ExactMatching(orders, probe'.url) # {} =>
          probe'.found \in ExactMatching(orders, probe'.url)]_vars

\* C12: normalize_url is idempotent on every text.
C12_Idempotent ==
    probe # Null /\ Len(probe.seen) = 2 => probe.seen[2] = probe.seen[1]

\* a link: a text that begins with the scheme and holds no white space
IsLink(url) == StartsWithHttp(url) /\ ~HasTok(url, SPACE)

\* the text ends with exactly one "/"
OneTrailingSlash(s) ==
    /\ s # <<>> /\ s[Len(s)] = SLASH
    /\ Len(s) > 1 => s[Len(s) - 1] \notin {SLASH, HTTPS, HTTP}

C14_OneRowPerOrder ==
    /\ [](\A i, j \in 1..Len(orders) :
             orders[i].order_id = orders[j].order_id => i = j)
    /\ [][\A o \in PolledNow :
             orders' # orders =>
                /\ Stored(orders') =
                      {r \in Stored(orders) : r.order_id # o}
                      \cup {OrderRow(BackendOrder(o, backend[o]))}
                /\ Len(orders') = Cardinality(Stored(orders'))]_vars

\* a poll has ingested the refunded order over its stored row, next to the
\* row of the other order
C14_Witness ==
    /\ Len(orders) = 2
    /\ \E p \in {"upd", "scan"} :
          /\ Co(p).pc = "notify1"
          /\ \E r \in Stored(orders) :
                r.order_id = Co(p).task.order_id /\ TerminalLogs(r)

\* the orders of a listing that the cycle keeps after its channel filter
KeptOrders(listed) ==
    LET selected == get_selected_shequ_ids(settings)
    IN IF selected # {} THEN SelectSeq(listed, LAMBDA o : o.ShequId \in selected)
       ELSE listed

\* C15: after a cycle of the bulk sync, the stored row of every order the
\* backend returned (and the channel filter kept) carries the values returned
\* in that cycle, also when the order was stored before the cycle.
C15_CycleUpserts ==
    [][\A ids \in BackendLists :
          SyncCycle /\ SyncOrders(ListedOrders(ids)) =>
             LET kept == KeptOrders(ListedOrders(ids))
             IN \A i \in 1..Len(kept) : OrderRow(kept[i]) \in Stored(orders')]_vars

\* a step of handle_shequ_callback
ToggleStep == ntog' # ntog

\* the channels of the stored orders
StoredChannels(ords) == {r.shequ_id : r \in Stored(ords)}

\* C16: a single-channel toggle in all-channels mode, with stored orders of
\* that channel and of another one, keeps the orders of the chosen channel,
\* evicts all others and leaves is_all_shequ_selected false.
C16_SelectOneChannel ==
    [][ToggleStep /\ is_all_shequ_selected(settings)
                  /\ StoredChannels(orders) = Channels =>
          \E c \in Channels :
             /\ Stored(orders') = {r \in Stored(orders) : r.shequ_id = c}
             /\ ~is_all_shequ_selected(settings')
             /\ get_selected_shequ_ids(settings') = {c}]_vars

\* no row of the channel settings is selected
NoneSelected(st) == \A r \in st : r.is_selected # 1

\* C17: whenever no channel setting is selected, is_all_shequ_selected is
\* true, a bulk sync cycle stores the listed orders of every channel, no link
\* is answered with the out-of-channel reply, and no stored order is evicted.
C17_AllChannelsMode ==
    /\ [](NoneSelected(settings) => is_all_shequ_selected(settings))
    /\ [][NoneSelected(settings) /\ NoneSelected(settings') =>
            /\ \A ids \in BackendLists :
                  SyncCycle /\ SyncOrders(ListedOrders(ids)) =>
                     \A i \in 1..Len(ids) : order_exists(orders', ids[i])
            /\ LinkStep => \A i \in 1..Len(outbox') :
                              outbox'[i].kind = "skip" => i <= Len(outbox)
            /\ \A r \in Stored(orders) : order_exists(orders', r.order_id)]_vars

\* C18: get_orders_page issues at most max_retries requests; after the failed
\* attempt k (counted from 1) with k < max_retries it waits 2k seconds, it does
\* not wait after the last attempt, and when every attempt fails it returns
\* None.
C18_RetryPolicy ==
    probe # Null =>
        LET requests == Len(probe.outcomes)
            failed == Cardinality({i \in 1..requests : probe.outcomes[i] # "ok"})
        IN /\ requests <= probe.max_retries
           /\ probe.pc \in {"request", "done"}
           /\ Len(probe.waits) = IF failed = probe.max_retries /\ failed > 0
                                 THEN failed - 1 ELSE failed
           /\ \A k \in 1..Len(probe.waits) : probe.waits[k] = k * 2
           /\ probe.pc = "done" /\ failed = requests =>
                 requests = probe.max_retries /\ probe.result = None
           /\ probe.pc = "done" /\ failed # requests => probe.result = "json"

\* every attempt has failed and the call is about to return None
C18_Witness ==
    /\ probe # Null /\ probe.pc = "done" /\ probe.max_retries = 3
    /\ probe.outcomes = <<"status", "exception", "status">>
    /\ probe.waits = <<2, 4>>

\* the terminal refund markers in the logs of the order
MarkersIn(logs) == {k \in KeywordsOf : RawHas(logs, k)}

\* C19: sync_order checks the logged status of the order before every attempt,
\* and when the logs of the order hold a terminal refund marker at that check
\* the call returns that status at once: no POST in that attempt or later.
C19_CheckBeforePost ==
    /\ [](probe # Null /\ probe.pc = "post" =>
             probe.checks = probe.attempt + 1 /\ probe.posts = probe.attempt)
    /\ [](probe # Null /\ probe.checks > 0 /\ probe.pc # "check"
             /\ MarkersIn(probe.logs) # {} =>
                /\ probe.pc = "done"
                /\ probe.result.refund_status \in MarkersIn(probe.logs)
                /\ probe.posts = probe.attempt)
    /\ [][probe # Null /\ probe.pc = "done" /\ probe' # Null => probe' = probe]_vars

\* the reference: the keyword of the most recent entry that holds one, else
\* the first keyword of the status text, else None
RefundStatusReference(order_detail) ==
    IF order_detail = Null THEN None
    ELSE LET entries == order_detail.Logs.entries
             fromEntries == ScanEntries(entries, Len(entries))
             text == order_detail.OrderStatusText
         IN IF fromEntries # None THEN fromEntries
            ELSE IF text = Null THEN None
            ELSE FirstKeyword(keywords, KeywordsIn(keywords, text))

\* C20: for every order record extract_refund_status returns the keyword of
\* the most recent log entry that holds one of the three keywords; only when
\* no entry holds one, the first keyword of the status text; otherwise None.
C20_MostRecentEntryFirst ==
    probe # Null => probe.result = RefundStatusReference(probe.order_detail[1])

\* the result of a record without log data: the keyword of the status text
StatusOnly(order_detail) ==
    IF order_detail.OrderStatusText = Null THEN None
    ELSE FirstKeyword(keywords, KeywordsIn(keywords, order_detail.OrderStatusText))

\* C21: extract_refund_status raises for no shape of the logs: logs that are
\* not a list of entries give a keyword found in the raw text or the result
\* of a record without log data, and the poll goes on to update its task.
C21_NeverRaises ==
    probe # Null =>
        /\ probe.pc # "raised"
        /\ probe.pc = "updated" /\ probe.order_detail[1].Logs.kind # "list" =>
              probe.refund_status \in MarkersIn(probe.order_detail[1].Logs)
                                      \cup {StatusOnly(probe.order_detail[1])}

BeforeCutoff(order) == order.CreateAt # 0 /\ order.CreateAt < cutoff_date
InWindow(order) ==
    order.CreateAt # 0 /\ cutoff_date <= order.CreateAt /\ order.CreateAt <= today_date

\* the orders of a page that precede its first order before the cutoff
UpToCutoff(page_orders) ==
    LET olds == {i \in 1..Len(page_orders) : BeforeCutoff(page_orders[i])}
        first == IF olds = {} THEN Len(page_orders) + 1
                 ELSE CHOOSE i \in olds : \A j \in olds : i <= j
    IN SubSeq(page_orders, 1, first - 1)

\* C22: the paging of a channel stops after a fetched page that is shorter
\* than page_size or holds an order before the cutoff, asks for the next page
\* after a full page that lies entirely in the window, and keeps the orders of
\* the page that precede its first order before the cutoff and are in the
\* window.
C22_PagingStops ==
    [][\A page_orders \in PageContents : PagingPage(page_orders) =>
          /\ (Len(page_orders) < PageSize
                \/ \E i \in 1..Len(page_orders) : BeforeCutoff(page_orders[i]))
             => probe'.pc = "done" /\ probe'.page = probe.page
          /\ (Len(page_orders) = PageSize
                /\ \A i \in 1..Len(page_orders) : InWindow(page_orders[i]))
             => probe'.pc = "request" /\ probe'.page = probe.page + 1
          /\ probe'.orders = probe.orders \o SelectSeq(UpToCutoff(page_orders), InWindow)]_vars

\* a full page whose second order is before the cutoff has ended the paging
\* on the second page, and its first order is kept
C22_Witness ==
    /\ probe # Null /\ probe.pc = "done" /\ probe.page = 2
    /\ probe.last = <<<<[CreateAt |-> 2], [CreateAt |-> 1]>>>>
    /\ Len(probe.orders) = 3

\* how often order o is in the list
TimesIn(list, o) == Cardinality({i \in 1..Len(list) : list[i] = o})

\* C23: in the fan-out over the channels a listing that fails does not abort
\* the others: the merged result is there only when every task has completed
\* or failed, and it holds all orders of the tasks that completed.
C23_PartialResults ==
    probe # Null /\ probe.pc = "returned" =>
        /\ \A k \in probe.keys : probe.state[k] \in {"done", "failed"}
        /\ \A o \in OrderIds :
              TimesIn(probe.all_orders, o) =
                 Cardinality({<<k, i>> \in probe.keys \X (1..Cardinality(OrderIds)) :
                                 /\ probe.state[k] = "done"
                                 /\ i <= Len(probe.orders[k])
                                 /\ probe.orders[k][i] = o})

\* channel 9 has failed, channel 7 has returned order 1, and the result is
\* merged
C23_Witness ==
    /\ probe # Null /\ probe.pc = "returned" /\ probe.keys = Channels
    /\ probe.state[9] = "failed" /\ probe.state[7] = "done"
    /\ probe.all_orders = <<1>>

\* C24: no check_new_orders cycle ends the periodic loop: after every cycle,
\* also one whose listing is not empty while the channel filter keeps none of
\* its orders, the thread of run_periodic_check is alive for the next cycle.
C24_LoopSurvives == probe # Null => probe.alive

\* C25: a failure while one due task is polled or notified does not leave the
\* scan: the scan of process_sync_queue ends only with the poll of the last
\* task it read or after the notification of that task, and never on a send
\* that failed.
C25_ScanFailSoft ==
    [][scan.pc # "idle" /\ scan'.pc = "idle" =>
          /\ scan.pc = "loop" => Cardinality(scan.todo) = 1
          /\ scan.pc # "loop" => scan.todo = {}
          /\ scan.pc = "notify2" => notified' # notified]_vars

\* C26: a press of the button "all" while no channel is selected leaves the
\* channel settings and the order store as they were, and the handler ends
\* with the keyboard shown again, without raising.
C26_ToggleAllInAllMode ==
    probe # Null /\ probe.data = "shequ_toggle_all"
                 /\ get_selected_shequ_ids(probe.settings) = {} =>
        /\ settings = probe.settings
        /\ orders = probe.orders
        /\ probe.pc = "rendered"

\* C27: when the bot token or the backend authorization token is missing at
\* startup the process refuses to proceed: no database is initialised, the
\* bulk sync thread is never started, and the bot never receives updates.
C27_RefusesWithoutCredentials ==
    probe # Null /\ (probe.cfg.TELEGRAM_BOT_TOKEN = ""
                        \/ probe.cfg.API_AUTHORIZATION_TOKEN = "") =>
        /\ probe.pc \in {"setup_logging", "validate", "refused"}
        /\ ~probe.db /\ probe.done = 0
        /\ probe.thread = "none" /\ probe.cycles = 0
        /\ ~probe.polling

\* main has returned for a configuration with a bot token and no backend token
C27_Witness ==
    /\ probe # Null /\ probe.pc = "refused"
    /\ probe.cfg.TELEGRAM_BOT_TOKEN = "token"
    /\ probe.cfg.API_AUTHORIZATION_TOKEN = ""

\* C28: every order a bulk sync cycle writes while a channel selection is in
\* force has a channel of the selection the cycle read, whatever channels the
\* orders of the listing have.
C28_WritesSelectedOnly ==
    [][probe' # probe /\ probe' # Null /\ probe'.shequ_ids # {} =>
          /\ probe'.shequ_ids = get_selected_shequ_ids(settings)
          /\ \A r \in Stored(orders') \ Stored(orders) : r.shequ_id \in probe'.shequ_ids
          /\ \A r \in Stored(orders') :
                r.order_id \in probe'.written => r.shequ_id \in probe'.shequ_ids]_vars

\* with channel 7 selected a cycle got orders 1 and 2 and wrote order 1
C28_Witness ==
    /\ probe # Null /\ probe.shequ_ids = {7}
    /\ probe.listed = <<1, 2>> /\ probe.written = {1}
    /\ \E r \in Stored(orders) : r.order_id = 1 /\ r.shequ_id = 7

\* C29: delete_expired_orders(days) removes exactly the orders whose
\* created_date is strictly earlier than today minus days and leaves every
\* other order, every sync task and every channel setting as it was.
C29_ExpiredOnly ==
    probe # Null =>
        /\ orders = SelectSeq(probe.orders,
                       LAMBDA r : ~(r.created_date < probe.today - probe.days))
        /\ tasks = probe.tasks
        /\ settings = probe.settings

\* of two stored orders the one of the cutoff day is kept and the one of the
\* day before is removed, next to a task and a channel setting
C29_Witness ==
    /\ probe # Null /\ Len(probe.orders) = 2 /\ Len(orders) = 1
    /\ orders[1].created_date = probe.today - probe.days
    /\ \E r \in Stored(probe.orders) : r.created_date = probe.today - probe.days - 1
    /\ tasks # {} /\ settings # {}

\* the table is the whole replacement: every listed row is written as listed,
\* and every other row is a row of before with its selection cleared
WholeRewrite(table, before, shequ_list) ==
    LET listed == {shequ_list[i].Id : i \in 1..Len(shequ_list)}
    IN /\ \A i \in 1..Len(shequ_list) :
             [shequ_id |-> shequ_list[i].Id,
              is_selected |-> shequ_list[i].is_selected] \in table
       /\ {r.shequ_id : r \in table} = {r.shequ_id : r \in before} \cup listed
       /\ \A r \in table : r.shequ_id \notin listed => r.is_selected = 0
       /\ \A r, q \in table : r.shequ_id = q.shequ_id => r = q

\* C30: update_shequ_settings is all-or-nothing: the settings table is the
\* whole clear-then-rewrite once the call has committed, and exactly the table
\* of before the call at every other moment, also after a statement failed.
C30_AllOrNothing ==
    probe # Null =>
        IF probe.pc = "committed"
        THEN WholeRewrite(settings, probe.before, probe.shequ_list)
        ELSE settings = probe.before

\* the second INSERT OR REPLACE failed after the clear and the first one had
\* changed a table with a selected channel
C30_Witness ==
    /\ probe # Null /\ probe.pc = "rolled_back" /\ probe.written = 1
    /\ Len(probe.shequ_list) = 2
    /\ probe.work # probe.before
    /\ get_selected_shequ_ids(probe.before) # {}

\* C31: every row of order_sync_tasks refers to an order that is in the table
\* orders: no task is left for an order that was evicted from the store.
C31_TasksReferToStoredOrders ==
    \A r \in tasks : order_exists(orders, r.order_id)

\* C32: sync_order issues at most max_retries POSTs, ends every call with a
\* result record (success only after a POST the backend accepted), and with
\* max_retries = 1 it has not waited at all when it returns.
C32_BoundedAndNoWait ==
    probe # Null /\ probe.pc = "done" =>
        /\ probe.posts <= probe.max_retries
        /\ probe.result # Null
        /\ probe.max_retries = 1 => probe.sleeps = 0 /\ probe.waited = 0

\* the same without the waits of the status check
C32_BoundedOwnSleeps ==
    probe # Null /\ probe.pc = "done" =>
        /\ probe.posts <= probe.max_retries
        /\ probe.result # Null
        /\ probe.max_retries = 1 => probe.sleeps = 0

\* C33: the paging loop of _get_shequ_orders ends whatever the backend
\* answers: a call that is asking for pages eventually returns.
C33_PagingTerminates ==
    (probe # Null /\ probe.pc = "request") ~> (probe # Null /\ probe.pc = "done")

\* a request that fails or carries an error code either ends the loop or moves
\* it to a greater page number within the cap: failures alone end the loop
\* after at most PageCap requests
C33_FailedPagesCounted ==
    [][\A result \in {"none", "error"} : FetchFailed(result) =>
          \/ probe'.pc = "done"
          \/ probe'.page = probe.page + 1 /\ probe'.page <= PageCap]_vars

\* C34: a press of the button of channel c leaves as the persisted selection
\* the selection of before with exactly c flipped, whatever channel list
\* get_shequ_list returned.
C34_ToggleFlipsExactly ==
    [][\A c \in Channels, shequ_list \in ShequLists :
          ButtonToggle(c, shequ_list) =>
             LET before == get_selected_shequ_ids(settings)
             IN get_selected_shequ_ids(settings') =
                   IF c \in before THEN before \ {c} ELSE before \cup {c}]_vars

\* the same for the presses at which get_shequ_list returned all channels
C34_ToggleFlipsListed ==
    [][\A c \in Channels : ButtonToggle(c, Channels) =>
          LET before == get_selected_shequ_ids(settings)
          IN get_selected_shequ_ids(settings') =
                IF c \in before THEN before \ {c} ELSE before \cup {c}]_vars

\* C35: while some channel is selected and no handler or job is under way,
\* every order of the store belongs to a selected channel.
C35_StoreWithinSelection ==
    upd.pc = "idle" /\ scan.pc = "idle" /\ get_selected_shequ_ids(settings) # {} =>
        \A i \in 1..Len(orders) :
           orders[i].shequ_id \in get_selected_shequ_ids(settings)

\* the coroutine sends the threaded notification of a task in this step
SendsNotice(before, after) == before.pc # "notify1" /\ after.pc = "notify1"

\* the notification goes to the thread the task table holds for the order
ToStoredThread(c) ==
    LET stored == get_sync_task(tasks, c.task.order_id)
    IN stored # Null =>
          /\ stored.chat_id = c.task.chat_id
          /\ stored.message_id = c.task.message_id

\* C36: the terminal notification of an order is sent to the chat thread that
\* the most recent add_sync_task stored for it, also when the due-task scan
\* read its tasks before the order was mentioned again.
C36_NotifiesLatestThread ==
    [][/\ SendsNotice(upd, upd') => ToStoredThread(upd')
       /\ SendsNotice(scan, scan') => ToStoredThread(scan')]_vars

\* order o has a row in order_sync_tasks
Tracked(o) == \E r \in tasks : r.order_id = o

C38_SelectedWhenDue ==
    [][TimerScan =>
          \A r \in tasks :
             r \in probe'.picked <=> now >= r.last_synced_at + probe.interval]_vars

\* C38: with the scan firing every interval, a task is selected by the first
\* scan at or after one interval past its last recorded poll and by none
\* before, and two consecutive polls of the task are at least one interval
\* and less than two intervals apart.
C38_PollCadence ==
    /\ C38_SelectedWhenDue
    /\ [](probe # Null /\ probe.prev # 0 =>
             /\ probe.last - probe.prev >= probe.interval
             /\ probe.last - probe.prev < 2 * probe.interval)


\* a keyword the poll finds in the logs is also found by the test of
\* handle_message
C39_LogKeywordSkips ==
    probe # Null /\ probe.from_logs # None => probe.skipped

\* C39: on every order record, is_refund_status is true exactly when
\* extract_refund_status returns a status: an order is skipped at message
\* receipt if and only if a poll would report a terminal status for it.
C39_DetectorsAgree ==
    probe # Null => (probe.skipped <=> probe.refund_status # None)


\* the listing ids holds every order the backend has for the selection
\* shequ_ids ({} in all mode): no request of the cycle has failed
CompleteFor(ids, shequ_ids) ==
    \A o \in OrderIds :
       shequ_ids = {} \/ BackendOrder(o, backend[o]).ShequId \in shequ_ids
          => \E i \in 1..Len(ids) : ids[i] = o

\* the orders a cycle that read shequ_ids has to have in the store: the
\* orders of the listing within the 2-day window that belong to the selection
Owed(ids, shequ_ids, t) ==
    {o \in {ids[i] : i \in 1..Len(ids)} :
        LET order == BackendOrder(o, backend[o])
        IN /\ DayOf(order.CreateAt) >= DayOf(t) - 2
           /\ (shequ_ids = {} \/ order.ShequId \in shequ_ids)}

\* a check_new_orders cycle whose requests all succeed stores every order of
\* the selection that is newer than the last-processed order id
C40_NewerOrdersStored ==
    [][/\ probe # Null /\ probe' # Null /\ probe'.cycles = probe.cycles + 1
       /\ probe'.alive
       /\ CompleteFor(probe'.listed, probe'.shequ_ids)
       => \A o \in Owed(probe'.listed, probe'.shequ_ids, now) :
             o > probe.last_order_id => order_exists(orders', o)]_vars

\* C40: after a check_new_orders cycle whose requests all succeed, every
\* order the backend returned that lies within the 2-day window and belongs
\* to a selected channel (any channel in all mode) is in the store, also the
\* orders of a channel selected after the last-processed order id advanced.
\* Stated for the cycles that start with a store holding every listed order
\* that was owed under the selection the cycle before had read.
C40_SelectedOrdersStored ==
    [][/\ probe # Null /\ probe' # Null /\ probe'.cycles = probe.cycles + 1
       /\ probe'.alive
       /\ CompleteFor(probe'.listed, probe'.shequ_ids)
       /\ \A o \in Owed(probe'.listed, probe.shequ_ids, now) : order_exists(orders, o)
       => \A o \in Owed(probe'.listed, probe'.shequ_ids, now) :
             order_exists(orders', o)]_vars

====
